---- MODULE Spec2Model ----
(***************************************************************************)
(* Verification model of EPGB_pyRofex.                                     *)
(*                                                                         *)
(* Part 1 - the feed session of main_HM.py: the module-level connection    *)
(*   sequence, websocket_error_handler, log_connection_event and           *)
(*   subscribe_to_market_data.                                             *)
(* Part 2 - the instrument cache of epgb_options/market_data:              *)
(*   InstrumentCache and pyRofexClient.fetch_available_instruments.        *)
(*                                                                         *)
(* Each part has its own specification over the same variables; the part   *)
(* a specification does not drive stays in its initial state.              *)
(***************************************************************************)
EXTENDS Integers, Sequences, FiniteSets, TLC

VARIABLES
    \* ---- part 1: feed session (main_HM.py) ----
    mainpc,                 \* position of the module-level code: connect / subscribe / run
    reconnection_attempts,  \* global reconnection_attempts
    connection_status,      \* global connection_status (the counters and the flag)
    subscribed,             \* instruments subscribed on the current provider session
    error,                  \* argument of the last websocket_error_handler call
    events,                 \* event types the last call passed to log_connection_event
    slept,                  \* argument of the last time.sleep(delay) of the handler
    failed_run,             \* history: failed reconnection attempts since the last success
    lost_subscriptions,     \* history: instruments subscribed when the session was lost
    via_reconnect,          \* history: the current session was set up by the handler
    escaped,                \* the last callback let an exception out to the provider
    \* ---- part 2: instrument cache (instrument_cache.py, api_client.py) ----
    now,                    \* datetime.now(), in minutes
    cache,                  \* the InstrumentCache object of the running process
    cache_file,             \* instruments_cache.json: None or <<snapshot>>
    valid_instruments,      \* pyRofexClient._valid_instruments
    forced,                 \* force_refresh of the last fetch_available_instruments call
    provider_result,        \* what pyRofex.get_detailed_instruments did in the last
                            \* fetch: "not_called", "raised", "empty" or "listing"
    persisted,              \* the cache file write of the last fetch: "not_called",
                            \* "written" or "failed"
    ret_symbols,            \* set returned by the last fetch_available_instruments call
    ret_validation,         \* (valid, invalid) returned by the last validate_symbols call
    ret_snapshot,           \* value returned by the last get_cached_instruments call
    \* ---- part 3: lookups of the instrument cache (instrument_cache.py) ----
    query,                  \* symbol passed to the last lookup
    ret_instrument,         \* value returned by the last get_instrument_by_symbol call
    ret_is_option,          \* value returned by the last is_option_symbol call
    \* ---- part 4: a refresh of the cache in progress (instrument_cache.py) ----
    wpc,                    \* position of the thread inside save_instruments:
                            \* idle / reset / fill
    wdata,                  \* cache_data of the save in progress (None before the first)
    wnext,                  \* index of the instrument _build_lookups inserts next
    old_snapshot,           \* history: the memory snapshot when the save began
    \* ---- part 5: sink synchronizer (excel/sheet_operations.py) ----
    sheet,                  \* column A of the HomeBroker sheet from row 2 on: sheet[i] is
                            \* the cell of row i + 1 (a symbol text, <<>> when empty)
    has_headers,            \* cell A1 holds 'symbol'
    symbol_row_cache,       \* self._symbol_row_cache: None while the attribute is missing
    update_stats,           \* self.update_stats (the two counters)
    df,                     \* df argument of the last update cycle
    cauciones_df,           \* cauciones_df argument of the last update cycle
    failing,                \* the sink operation that raised in the last cycle, "none" if none
    ret_cycle,              \* what the last update cycle returned
    read_sink,              \* the last cycle read the symbol column of the sink
    deleted,                \* rows the last cycle deleted, in the order of deletion
    quote_writes,           \* quote-data range writes the last cycle issued
    built_before,           \* history: an earlier cycle of this session built the index
    \* ---- part 6: message normalizer (market_data/websocket_handler.py) ----
    connection_stats,       \* self.connection_stats (the three counters)
    everything_df,          \* self.everything_df: symbol -> row (column -> value)
    options_df,             \* self.options_df
    handler_cauciones_df,   \* self.cauciones_df of the handler
    message,                \* argument of the last market_data_handler call
    data_row,               \* data_row built from the last message, None if none was built
    handled,                \* how the last call ended: "invalid", "error" or "processed"
    routed,                 \* update paths the last call's _process_market_data called
    on_data_update,         \* self.on_data_update is set
    notified,               \* history: the symbols given to on_data_update
    \* ---- part 7: repo side table (excel/sheet_operations.py) ----
    side_df,                \* df argument of the last _update_cauciones_table call
    today,                  \* datetime.now().date() of that call, a day number
    side_writes,            \* the range writes that call issued
    \* ---- part 8: application loop (main.py) ----
    app_pc,                 \* position of run(): initialize / subscribe / loop / finally / returned
    is_running,             \* self.is_running
    workbook_connected,     \* the workbook manager is connected to the sink
    api_initialized,        \* api_client.is_initialized: the provider connection is open
    quotes_received,        \* number of quote updates applied to everything_df
    quotes_written,         \* number of quote updates the sink reflects
    excel_updates,          \* history: calls of update_excel_with_current_data
    \* ---- part 9: symbol display (utils/helpers.py) ----
    display_arg,            \* argument of the last call of a symbol display helper
    display_ret,            \* what that call returned
    display_from,           \* the helper whose return value was that argument, "" if none
    display_origin,         \* the argument that helper had been given
    \* ---- part 10: the quote table shared by the two threads ----
    shared_row,             \* a row of everything_df: column -> number of the message it is from
    msg_no,                 \* messages for the symbol the handler has taken up
    stored,                 \* columns of message msg_no stored so far, 0 between messages
    sink_row,               \* the row values of the last bulk write to the sink, None if none
    \* ---- all parts ----
    op                      \* name of the operation that made the last step

connvars == <<mainpc, reconnection_attempts, connection_status, subscribed, error,
              events, slept, failed_run, lost_subscriptions, via_reconnect, escaped>>

cachevars == <<now, cache, cache_file, valid_instruments, forced, provider_result, persisted, ret_validation,
               ret_symbols, ret_snapshot>>

lookupvars == <<query, ret_instrument, ret_is_option>>

rebuildvars == <<wpc, wdata, wnext, old_snapshot>>

sheetvars == <<sheet, has_headers, symbol_row_cache, update_stats, df, cauciones_df,
               failing, ret_cycle, read_sink, deleted, quote_writes, built_before>>

normvars == <<connection_stats, everything_df, options_df, handler_cauciones_df,
              message, data_row, handled, routed, on_data_update, notified>>

sidevars == <<side_df, today, side_writes>>

appvars == <<app_pc, is_running, workbook_connected, api_initialized, quotes_received,
             quotes_written, excel_updates>>

displayvars == <<display_arg, display_ret, display_from, display_origin>>

tornvars == <<shared_row, msg_no, stored, sink_row>>

\* What the actions of one part leave alone.
outside_torn == <<connvars, cachevars, lookupvars, rebuildvars, sheetvars, normvars,
                 sidevars, appvars, displayvars>>

outside_display == <<connvars, cachevars, lookupvars, rebuildvars, sheetvars, normvars,
                    sidevars, appvars, tornvars>>

outside_conn == <<cachevars, lookupvars, rebuildvars, sheetvars, normvars, sidevars, appvars,
                  displayvars, tornvars>>

outside_cache == <<connvars, lookupvars, rebuildvars, sheetvars, normvars, sidevars, appvars,
                   displayvars, tornvars>>

outside_lookup == <<connvars, rebuildvars, sheetvars, normvars, sidevars, appvars,
                    displayvars, tornvars>>

outside_rebuild == <<connvars, lookupvars, sheetvars, normvars, sidevars, appvars,
                     displayvars, tornvars>>

outside_sheet == <<connvars, cachevars, lookupvars, rebuildvars, normvars, sidevars, appvars,
                   displayvars, tornvars>>

outside_side == <<connvars, cachevars, lookupvars, rebuildvars, sheetvars, normvars, appvars,
                  displayvars, tornvars>>

outside_app == <<connvars, cachevars, lookupvars, rebuildvars, sheetvars, normvars, sidevars,
                 displayvars, tornvars>>

\* The handler classifies a symbol with its instrument cache, which can load
\* the cache file.
outside_norm == <<connvars, now, cache_file, valid_instruments, forced, provider_result, persisted, ret_validation,
                  ret_symbols, ret_snapshot, lookupvars, rebuildvars, sheetvars, sidevars,
                  appvars, displayvars, tornvars>>

vars == <<connvars, cachevars, lookupvars, rebuildvars, sheetvars, normvars, sidevars,
         appvars, displayvars, tornvars, op>>

----------------------------------------------------------------------------
(* Bounds *)

\* total_reconnections only grows; the handler is not run beyond this count.
MaxTotalReconnections == 12

\* The clock advances TickMinutes at a time, up to MaxTime minutes.
TickMinutes == 10

MaxTime == 40

\* The two counters of update_stats are not driven beyond this value.
MaxCounter == 2

\* The handler is not given more than this number of messages.
MaxMessages == 2

\* The repo table given to the side-table update has at most this many rows.
MaxSideRows == 2

\* Quote updates and turns of the application loop in one run.
MaxQuotes == 4

MaxCycles == 4

\* The symbols given to the display helpers have at most MaxPrefixes copies
\* of the prefix and MaxRest pieces after them.
MaxPrefixes == 2

MaxRest == 2

\* Messages for one symbol that arrive while the loop runs.
MaxArrivals == 3

----------------------------------------------------------------------------
(* Text helpers: a Python str is a sequence of one-character strings. *)

UpperToLower ==
    [A |-> "a", B |-> "b", C |-> "c", D |-> "d", E |-> "e", F |-> "f", G |-> "g",
     H |-> "h", I |-> "i", J |-> "j", K |-> "k", L |-> "l", M |-> "m", N |-> "n",
     O |-> "o", P |-> "p", Q |-> "q", R |-> "r", S |-> "s", T |-> "t", U |-> "u",
     V |-> "v", W |-> "w", X |-> "x", Y |-> "y", Z |-> "z"]

\* str.lower()
Lower(s) ==
    [i \in 1..Len(s) |-> IF s[i] \in DOMAIN UpperToLower THEN UpperToLower[s[i]] ELSE s[i]]

\* sub in s
Contains(s, sub) ==
    \E k \in 0..(Len(s) - Len(sub)) :
        \A j \in 1..Len(sub) : s[k + j] = sub[j]

Last(s) == s[Len(s)]

Min(a, b) == IF a < b THEN a ELSE b

\* Error texts the provider (or the failed initial connection) hands to the
\* handler: the four of validate_system.test_error_handler and two more.
ErrConnectionTimeout == <<"C","o","n","n","e","c","t","i","o","n"," ","t","i","m","e","o","u","t">>
ErrNetworkUnreachable == <<"N","e","t","w","o","r","k"," ","u","n","r","e","a","c","h","a","b","l","e">>
ErrAuthenticationFailed == <<"A","u","t","h","e","n","t","i","c","a","t","i","o","n"," ","f","a","i","l","e","d">>
ErrInvalidSymbol == <<"I","n","v","a","l","i","d"," ","s","y","m","b","o","l">>
ErrSocketClosedUpper == <<"S","o","c","k","e","t"," ","C","L","O","S","E","D">>
ErrConnReset == <<"C","o","n","n"," ","r","e","s","e","t">>

ErrorTexts == {ErrConnectionTimeout, ErrNetworkUnreachable, ErrAuthenticationFailed,
               ErrInvalidSymbol, ErrSocketClosedUpper, ErrConnReset}

\* Instruments listed in the Tickers sheet (Options_Helper_HM.get...List).
Universe == {"GGAL", "AL30"}

----------------------------------------------------------------------------
(* Part 1: main_HM.py *)

max_reconnection_attempts == 10

reconnection_delays == <<1, 2, 4, 8, 15, 30>>

connection_errors ==
    { <<"c","o","n","n","e","c","t","i","o","n">>,
      <<"t","i","m","e","o","u","t">>,
      <<"n","e","t","w","o","r","k">>,
      <<"d","i","s","c","o","n","n","e","c","t">>,
      <<"c","l","o","s","e","d">>,
      <<"r","e","f","u","s","e","d">>,
      <<"u","n","r","e","a","c","h","a","b","l","e">> }

\* mutant: the text is matched without being lower-cased
is_connection_error_nolower(err) ==
    \E err_type \in connection_errors : Contains(err, err_type)

\* any(err_type in error_str for err_type in connection_errors), error_str = str(error).lower()
is_connection_error(err) ==
    \E err_type \in connection_errors : Contains(Lower(err), err_type)

\* mutant: the index wraps around instead of being capped
delay_wrapping(n) == reconnection_delays[(n % Len(reconnection_delays)) + 1]

\* delay_index = min(reconnection_attempts, len(reconnection_delays) - 1)
\* delay = reconnection_delays[delay_index]            (0-based in the source)
delay(n) == reconnection_delays[Min(n, Len(reconnection_delays) - 1) + 1]

\* mutant: off by one, an attempt is still made at the maximum
may_reconnect_inclusive(n) == n <= max_reconnection_attempts

\* if reconnection_attempts < max_reconnection_attempts
may_reconnect(n) == n < max_reconnection_attempts

\* mutant: the counter is reset whether or not the re-initialisation succeeded
attempts_after_reconnect_always_reset(initOk, n) == 0

\* reconnection_attempts after the try block of the handler: reset to 0 when
\* init_websocket_connection returned, left as incremented when it raised
attempts_after_reconnect(initOk, n) == IF initOk THEN 0 ELSE n

\* mutant: a connection does not reset consecutive_failures
log_connection_event_keeps_failures(st, event_type) ==
    CASE event_type = "connected" ->
            [st EXCEPT !.is_connected = TRUE]
      [] event_type = "disconnected" ->
            [st EXCEPT !.is_connected = FALSE]
      [] event_type = "reconnection_attempt" ->
            [st EXCEPT !.total_reconnections = @ + 1, !.consecutive_failures = @ + 1]
      [] OTHER -> st

\* log_connection_event(event_type): the effect on connection_status
log_connection_event(st, event_type) ==
    CASE event_type = "connected" ->
            [st EXCEPT !.is_connected = TRUE, !.consecutive_failures = 0]
      [] event_type = "disconnected" ->
            [st EXCEPT !.is_connected = FALSE]
      [] event_type = "reconnection_attempt" ->
            [st EXCEPT !.total_reconnections = @ + 1, !.consecutive_failures = @ + 1]
      [] OTHER -> st

\* mutant: the reconnection calls stand outside every try
except_clauses_unguarded(call) ==
    IF call \in {"init_websocket_connection", "subscribe_to_market_data"}
    THEN << >> ELSE <<"handler_error">>

\* The except clauses around a call of the callbacks, innermost first: every
\* call stands in the try of the whole handler body, the calls of the
\* reconnection in the try blocks of their own.
except_clauses(call) ==
    CASE call = "close_websocket_connection" ->
            <<"close_error", "reconnect_error", "handler_error">>
      [] call = "init_websocket_connection" -> <<"reconnect_error", "handler_error">>
      [] call = "subscribe_to_market_data" ->
            <<"resub_error", "reconnect_error", "handler_error">>
      [] OTHER -> <<"handler_error">>

\* An exception raised by one of the calls leaves the callback when no
\* except clause stands around the call.
propagates(calls) == \E call \in calls : except_clauses(call) = << >>

\* The calls that raise inside a reconnection attempt of
\* websocket_error_handler: the attempt closes the connection (closeOk),
\* re-initialises it (initOk) and resubscribes.
raising_calls(closeOk, initOk, subscribeDefined) ==
    (IF closeOk THEN {} ELSE {"close_websocket_connection"})
    \cup (IF initOk THEN {} ELSE {"init_websocket_connection"})
    \cup (IF initOk /\ ~subscribeDefined THEN {"subscribe_to_market_data"} ELSE {})

\* websocket_error_handler(error).  initOk: init_websocket_connection returns
\* (TRUE) or raises; subOk: the instruments whose market_data_subscription call
\* succeeds inside subscribe_to_market_data (a failing call is caught per
\* symbol); subscribeDefined: FALSE while the module has not yet executed the
\* def of subscribe_to_market_data (the call then raises NameError, which the
\* handler catches as resub_error).
\* close_websocket_connection ends the provider session, so its subscriptions
\* are gone whether or not the re-initialisation succeeds; it returns or
\* raises (closeOk).
websocket_error_handler(err, initOk, subOk, subscribeDefined) ==
    /\ error' = err
    /\ IF is_connection_error(err)
       THEN LET s1 == log_connection_event(connection_status, "disconnected") IN
            /\ lost_subscriptions' =
                   IF connection_status.is_connected THEN subscribed ELSE lost_subscriptions
            /\ IF may_reconnect(reconnection_attempts)
               THEN LET s2 == log_connection_event(s1, "reconnection_attempt")
                        n1 == reconnection_attempts + 1
                    IN /\ slept' = delay(reconnection_attempts)
                       /\ escaped' \in
                              { propagates(raising_calls(closeOk, initOk, subscribeDefined)) :
                                  closeOk \in BOOLEAN }
                       /\ reconnection_attempts' = attempts_after_reconnect(initOk, n1)
                       /\ IF initOk
                          THEN /\ connection_status' = log_connection_event(s2, "connected")
                               /\ subscribed' = IF subscribeDefined THEN subOk ELSE {}
                               /\ events' = <<"error", "disconnected",
                                              "reconnection_attempt", "connected">>
                               /\ failed_run' = 0
                               /\ via_reconnect' = TRUE
                          ELSE /\ connection_status' = s2
                               /\ subscribed' = {}
                               /\ events' = <<"error", "disconnected",
                                              "reconnection_attempt", "reconnection_failed">>
                               /\ failed_run' = failed_run + 1
                               /\ UNCHANGED via_reconnect
               ELSE /\ connection_status' = s1
                    /\ events' = <<"error", "disconnected", "reconnection_exhausted">>
                    /\ escaped' = propagates({})
                    /\ UNCHANGED <<reconnection_attempts, subscribed, slept,
                                   failed_run, via_reconnect>>
       ELSE /\ events' = <<"error", "non_connection_error">>
            /\ escaped' = propagates({})
            /\ UNCHANGED <<reconnection_attempts, connection_status, subscribed, slept,
                           failed_run, lost_subscriptions, via_reconnect>>

\* The values of next_backoff_delay: a number of seconds, or the text
\* 'Max reached'.
BackoffSeconds(n) == [kind |-> "seconds", v |-> n]

MaxReached == [kind |-> "Max reached", v |-> 0]

\* mutant: the delay of the attempt after the next one
get_connection_status_report_ahead(attempts, status) ==
    [is_connected |-> status.is_connected,
     total_reconnections |-> status.total_reconnections,
     consecutive_failures |-> status.consecutive_failures,
     current_reconnection_attempts |-> attempts,
     max_reconnection_attempts |-> max_reconnection_attempts,
     next_backoff_delay |->
        IF attempts < max_reconnection_attempts
        THEN BackoffSeconds(
                 reconnection_delays[Min(attempts + 1, Len(reconnection_delays) - 1) + 1])
        ELSE MaxReached]

\* get_connection_status_report(): the fields that do not depend on the
\* clock.
get_connection_status_report(attempts, status) ==
    [is_connected |-> status.is_connected,
     total_reconnections |-> status.total_reconnections,
     consecutive_failures |-> status.consecutive_failures,
     current_reconnection_attempts |-> attempts,
     max_reconnection_attempts |-> max_reconnection_attempts,
     next_backoff_delay |->
        IF attempts < max_reconnection_attempts
        THEN BackoffSeconds(
                 reconnection_delays[Min(attempts, Len(reconnection_delays) - 1) + 1])
        ELSE MaxReached]

\* Module level, lines 620-637: the initial init_websocket_connection succeeds.
InitialConnectOk ==
    /\ mainpc = "connect"
    /\ connection_status' = log_connection_event(connection_status, "connected")
    /\ reconnection_attempts' = 0
    /\ events' = <<"connected">>
    /\ mainpc' = "subscribe"
    /\ op' = "initial_connect"
    /\ UNCHANGED outside_conn
    /\ UNCHANGED <<subscribed, error, slept, failed_run, lost_subscriptions, via_reconnect,
                   escaped>>

\* Module level, lines 633-637: the initial init_websocket_connection raises e
\* and the except clause calls websocket_error_handler(e) before line 642 has
\* defined subscribe_to_market_data.
InitialConnectFails ==
    /\ mainpc = "connect"
    /\ \E e \in ErrorTexts, initOk \in BOOLEAN :
           websocket_error_handler(e, initOk, {}, FALSE)
    /\ mainpc' = "subscribe"
    /\ op' = "initial_connect_failed"
    /\ UNCHANGED outside_conn

\* Module level, line 803: subscribe_to_market_data().  Every symbol of every
\* list is tried; a symbol whose subscription call raises is skipped.
MainSubscribe ==
    /\ mainpc = "subscribe"
    /\ \E subOk \in SUBSET Universe : subscribed' = subOk
    /\ mainpc' = "run"
    /\ op' = "subscribe"
    /\ UNCHANGED outside_conn
    /\ UNCHANGED <<reconnection_attempts, connection_status, error, events, slept,
                   failed_run, lost_subscriptions, via_reconnect, escaped>>

\* The provider invokes the registered error_handler while the update loop runs.
ErrorCallback ==
    /\ mainpc = "run"
    /\ connection_status.total_reconnections < MaxTotalReconnections
    /\ \E e \in ErrorTexts, initOk \in BOOLEAN, subOk \in SUBSET Universe :
           websocket_error_handler(e, initOk, subOk, TRUE)
    /\ op' = "error_callback"
    /\ UNCHANGED outside_conn
    /\ UNCHANGED mainpc

\* The provider invokes the registered exception_handler:
\* websocket_exception_handler(exception) prints the exception and returns.
ExceptionCallback ==
    /\ mainpc = "run"
    /\ escaped' = propagates({})
    /\ op' = "exception_callback"
    /\ UNCHANGED outside_conn
    /\ UNCHANGED <<mainpc, reconnection_attempts, connection_status, subscribed, error,
                   events, slept, failed_run, lost_subscriptions, via_reconnect>>

----------------------------------------------------------------------------
(* Part 2: instrument_cache.py and api_client.py *)

\* Optional values: None is the empty tuple, a present value v is <<v>>.
None == <<>>

Some(v) == <<v>>

\* InstrumentCache(ttl_minutes=30) in pyRofexClient.__init__
ttl_minutes == 30

\* Instruments as the provider lists them.  A dict instrument carries the
\* keys 'symbol', 'instrumentId'.'symbol' and 'cficode' ("" when the key is
\* absent); the code also accepts a bare symbol string.
DictInstrument(sym, idsym, cfi) ==
    [kind |-> "dict", text |-> "", symbol |-> sym, id_symbol |-> idsym, cficode |-> cfi]

StrInstrument(txt) ==
    [kind |-> "str", text |-> txt, symbol |-> "", id_symbol |-> "", cficode |-> ""]

ListingEquityAndOption ==
    << DictInstrument("", "GGAL", "ESXXXX"), DictInstrument("", "GFGC", "OCASPS") >>

ListingBond ==
    << DictInstrument("", "AL30", "DBXXXX") >>

ListingMixedFormats ==
    << DictInstrument("", "GGAL", "ESXXXX"), DictInstrument("YPFD", "", "ESXXXX"),
       StrInstrument("PAMP") >>

\* What pyRofex.get_detailed_instruments()['instruments'] can be.
Listings == {ListingEquityAndOption, ListingBond, ListingMixedFormats}

\* The symbol extraction of fetch_available_instruments (lines 125-136) and
\* of the fallback of get_instrument_symbols (lines 194-206):
\* instrument.get('symbol') or instrument.get('instrumentId', {}).get('symbol')
symbol_of(instrument) ==
    IF instrument.kind = "str" THEN instrument.text
    ELSE IF instrument.symbol # "" THEN instrument.symbol
    ELSE instrument.id_symbol

extract_symbols(instruments) ==
    { symbol_of(instruments[i]) : i \in 1..Len(instruments) } \ {""}

\* InstrumentCache.__init__: nothing in memory, no lookups
new_cache ==
    [memory_cache |-> None, memory_cache_timestamp |-> None,
     symbol_to_instrument |-> <<>>, options_symbols |-> None, all_symbols |-> None]

\* InstrumentCache._is_memory_cache_valid at time t
\* mutant: the boundary minute is already expired
is_memory_cache_valid_strict(c, t) ==
    /\ c.memory_cache # None
    /\ c.memory_cache_timestamp # None
    /\ t - c.memory_cache_timestamp[1] < ttl_minutes

is_memory_cache_valid(c, t) ==
    /\ c.memory_cache # None
    /\ c.memory_cache_timestamp # None
    /\ t - c.memory_cache_timestamp[1] <= ttl_minutes

\* InstrumentCache._build_lookups: only dict instruments with an
\* instrumentId.symbol are indexed; a later entry for a symbol replaces an
\* earlier one.
build_lookups(cache_data) ==
    LET instruments == cache_data.instruments
        indexed == { i \in 1..Len(instruments) :
                        instruments[i].kind = "dict" /\ instruments[i].id_symbol # "" }
        symbols == { instruments[i].id_symbol : i \in indexed }
        last_index(sym) ==
            CHOOSE i \in indexed :
                /\ instruments[i].id_symbol = sym
                /\ \A j \in indexed : instruments[j].id_symbol = sym => j <= i
    IN [symbol_to_instrument |-> [sym \in symbols |-> instruments[last_index(sym)]],
        options_symbols |->
            Some({ sym \in symbols :
                     \E i \in indexed : /\ instruments[i].id_symbol = sym
                                        /\ instruments[i].cficode \in {"OCASPS", "OPASPS"} }),
        all_symbols |-> Some(symbols)]

\* The InstrumentCache object after cache_data became the memory snapshot at time t.
with_memory(cache_data, t) ==
    LET lk == build_lookups(cache_data)
    IN [memory_cache |-> Some(cache_data), memory_cache_timestamp |-> Some(t),
        symbol_to_instrument |-> lk.symbol_to_instrument,
        options_symbols |-> lk.options_symbols, all_symbols |-> lk.all_symbols]

\* InstrumentCache.get_cached_instruments on object c with file f at time t:
\* the value returned and the object afterwards.  The file is JSON whose
\* values are strings, numbers, lists and dicts, so json.load gives back
\* what json.dump was given.
get_cached_instruments(c, f, t) ==
    IF is_memory_cache_valid(c, t)
    THEN [ret |-> c.memory_cache, c |-> c]
    ELSE IF f = None
    THEN [ret |-> None, c |-> c]
    ELSE IF t - f[1].timestamp > ttl_minutes
    THEN [ret |-> None, c |-> c]
    ELSE [ret |-> f, c |-> with_memory(f[1], t)]

\* mutant: the listing is added to the instruments the file already holds
save_instruments_appending(c, f, t, instruments, metadata, writeOk) ==
    LET cache_data == [timestamp |-> t, ttl_minutes |-> ttl_minutes,
                       instruments |-> instruments, count |-> Len(instruments),
                       metadata |-> metadata]
        merged == IF f = None THEN instruments ELSE f[1].instruments \o instruments
    IN [c |-> with_memory(cache_data, t),
        f |-> IF writeOk
              THEN Some([cache_data EXCEPT !.instruments = merged, !.count = Len(merged)])
              ELSE f]

\* InstrumentCache.save_instruments at time t.  writeOk: opening the cache
\* file for writing succeeds; when it raises, the except clause logs and the
\* memory snapshot and the lookups stay as already assigned.
save_instruments(c, f, t, instruments, metadata, writeOk) ==
    LET cache_data == [timestamp |-> t, ttl_minutes |-> ttl_minutes,
                       instruments |-> instruments, count |-> Len(instruments),
                       metadata |-> metadata]
    IN [c |-> with_memory(cache_data, t),
        f |-> IF writeOk THEN Some(cache_data) ELSE f]

\* InstrumentCache.get_instrument_symbols: the set returned and the object afterwards.
get_instrument_symbols(c, f, t) ==
    IF c.all_symbols # None
    THEN [ret |-> c.all_symbols[1], c |-> c]
    ELSE LET r == get_cached_instruments(c, f, t)
         IN IF r.ret = None
            THEN [ret |-> {}, c |-> r.c]
            ELSE [ret |-> extract_symbols(r.ret[1].instruments), c |-> r.c]

\* What pyRofex.get_detailed_instruments() does: it raises, or it returns a
\* listing (the empty tuple stands for an empty response).
ProviderRaises == [raises |-> TRUE, listing |-> <<>>]

ProviderOutcomes ==
    {ProviderRaises} \cup { [raises |-> FALSE, listing |-> l] : l \in Listings \cup {<<>>} }

\* The lists of symbols given to validate_symbols
SymbolLists == { <<"GGAL", "ZZZZ">>, <<"YPFD">> }

\* pyRofexClient.fetch_available_instruments(force_refresh) with the provider
\* outcome given.  The result: set returned, object, file, _valid_instruments,
\* and what the provider call did.
fetch_result(c, f, t, valid, force_refresh, outcome, writeOk) ==
    LET g == IF force_refresh THEN [ret |-> {}, c |-> c] ELSE get_instrument_symbols(c, f, t)
    IN IF ~force_refresh /\ g.ret # {}
       THEN [ret |-> g.ret, c |-> g.c, f |-> f, valid |-> g.ret, api |-> "not_called",
             saved |-> "not_called"]
       ELSE IF outcome.raises
       THEN LET fb == get_instrument_symbols(g.c, f, t)
            IN [ret |-> fb.ret, c |-> fb.c, f |-> f,
                valid |-> IF fb.ret # {} THEN fb.ret ELSE valid, api |-> "raised",
                saved |-> "not_called"]
       ELSE IF outcome.listing = <<>>
       THEN [ret |-> {}, c |-> g.c, f |-> f, valid |-> valid, api |-> "empty",
             saved |-> "not_called"]
       ELSE LET sv == save_instruments(g.c, f, t, outcome.listing, "pyRofexClient", writeOk)
                symbols == extract_symbols(outcome.listing)
            IN [ret |-> symbols, c |-> sv.c, f |-> sv.f, valid |-> symbols, api |-> "listing",
                saved |-> IF writeOk THEN "written" ELSE "failed"]

fetch_available_instruments ==
    \E force_refresh \in BOOLEAN, outcome \in ProviderOutcomes, writeOk \in BOOLEAN :
        LET r == fetch_result(cache, cache_file, now, valid_instruments,
                              force_refresh, outcome, writeOk)
        IN /\ cache' = r.c
           /\ cache_file' = r.f
           /\ valid_instruments' = r.valid
           /\ ret_symbols' = r.ret
           /\ provider_result' = r.api
           /\ persisted' = r.saved
           /\ forced' = force_refresh
           /\ op' = "fetch_available_instruments"
           /\ UNCHANGED <<now, ret_snapshot, ret_validation>>
           /\ UNCHANGED outside_cache

\* mutant: the symbols are checked against the empty set as well
validation_of_strict(symbols, known) ==
    [valid |-> SelectSeq(symbols, LAMBDA sym : sym \in known),
     invalid |-> SelectSeq(symbols, LAMBDA sym : sym \notin known)]

\* The result of validate_symbols with _valid_instruments = known: every
\* symbol is let through when no instruments are available.
validation_of(symbols, known) ==
    IF known = {} THEN [valid |-> symbols, invalid |-> << >>]
    ELSE [valid |-> SelectSeq(symbols, LAMBDA sym : sym \in known),
          invalid |-> SelectSeq(symbols, LAMBDA sym : sym \notin known)]

\* pyRofexClient.validate_symbols(symbols): with no instruments loaded the
\* client fetches first; with none after that every symbol is let through.
validate_symbols ==
    \E symbols \in SymbolLists, outcome \in ProviderOutcomes, writeOk \in BOOLEAN :
        LET fetching == valid_instruments = {}
            r == fetch_result(cache, cache_file, now, valid_instruments, FALSE, outcome,
                              writeOk)
            known == IF fetching THEN r.valid ELSE valid_instruments
        IN /\ cache' = IF fetching THEN r.c ELSE cache
           /\ cache_file' = IF fetching THEN r.f ELSE cache_file
           /\ valid_instruments' = known
           /\ ret_symbols' = IF fetching THEN r.ret ELSE ret_symbols
           /\ provider_result' = IF fetching THEN r.api ELSE provider_result
           /\ persisted' = IF fetching THEN r.saved ELSE persisted
           /\ forced' = IF fetching THEN FALSE ELSE forced
           /\ ret_validation' = validation_of(symbols, known)
           /\ op' = "validate_symbols"
           /\ UNCHANGED <<now, ret_snapshot>>
           /\ UNCHANGED outside_cache

\* A direct call of InstrumentCache.get_cached_instruments().
CachedInstrumentsRead ==
    LET r == get_cached_instruments(cache, cache_file, now)
    IN /\ cache' = r.c
       /\ ret_snapshot' = r.ret
       /\ op' = "get_cached_instruments"
       /\ UNCHANGED <<now, cache_file, valid_instruments, forced, provider_result, persisted, ret_validation, ret_symbols>>
       /\ UNCHANGED outside_cache

\* InstrumentCache.clear_cache()
clear_cache ==
    /\ cache' = new_cache
    /\ cache_file' = None
    /\ op' = "clear_cache"
    /\ UNCHANGED <<now, valid_instruments, forced, provider_result, persisted, ret_validation, ret_symbols, ret_snapshot>>
    /\ UNCHANGED outside_cache

\* The application is started again: pyRofexClient.__init__ builds a new
\* InstrumentCache on the cache file the earlier run left behind.
Restart ==
    /\ cache' = new_cache
    /\ valid_instruments' = {}
    /\ op' = "restart"
    /\ UNCHANGED <<now, cache_file, forced, provider_result, persisted, ret_validation, ret_symbols, ret_snapshot>>
    /\ UNCHANGED outside_cache

\* Time passes.
Tick ==
    /\ now + TickMinutes <= MaxTime
    /\ now' = now + TickMinutes
    /\ op' = "tick"
    /\ UNCHANGED <<cache, cache_file, valid_instruments, forced, provider_result, persisted, ret_validation,
                   ret_symbols, ret_snapshot>>
    /\ UNCHANGED outside_cache

----------------------------------------------------------------------------
(* Part 3: the lookups of InstrumentCache *)

\* Symbols that are looked up: an equity, an option, a symbol listed under
\* the top-level 'symbol' key only, and a symbol no listing contains.
Queries == {"GGAL", "GFGC", "YPFD", "ZZZZ"}

\* cficode in ('OCASPS', 'OPASPS')
OptionCfiCodes == {"OCASPS", "OPASPS"}

\* The linear search of get_instrument_by_symbol (lines 243-250): the first
\* dict instrument whose instrumentId.symbol is the symbol.
linear_search(instruments, symbol) ==
    LET hits == { i \in 1..Len(instruments) :
                     instruments[i].kind = "dict" /\ instruments[i].id_symbol = symbol }
    IN IF hits = {} THEN None
       ELSE Some(instruments[CHOOSE i \in hits : \A j \in hits : i <= j])

\* InstrumentCache.get_instrument_by_symbol: the value returned and the
\* object afterwards.
get_instrument_by_symbol(c, f, t, symbol) ==
    IF DOMAIN c.symbol_to_instrument # {}
    THEN [ret |-> IF symbol \in DOMAIN c.symbol_to_instrument
                  THEN Some(c.symbol_to_instrument[symbol]) ELSE None,
          c |-> c]
    ELSE LET r == get_cached_instruments(c, f, t)
         IN IF r.ret = None
            THEN [ret |-> None, c |-> r.c]
            ELSE [ret |-> linear_search(r.ret[1].instruments, symbol), c |-> r.c]

\* InstrumentCache.is_option_symbol: the value returned and the object afterwards.
is_option_symbol(c, f, t, symbol) ==
    IF c.options_symbols # None /\ c.options_symbols[1] # {}
    THEN [ret |-> symbol \in c.options_symbols[1], c |-> c]
    ELSE LET g == get_instrument_by_symbol(c, f, t, symbol)
         IN [ret |-> g.ret # None /\ g.ret[1].cficode \in OptionCfiCodes, c |-> g.c]

\* A call of InstrumentCache.save_instruments with a listing of the provider.
SaveInstruments ==
    \E instruments \in Listings, writeOk \in BOOLEAN :
        LET sv == save_instruments(cache, cache_file, now, instruments, "pyRofexClient", writeOk)
        IN /\ cache' = sv.c
           /\ cache_file' = sv.f
           /\ op' = "save_instruments"
           /\ UNCHANGED <<now, valid_instruments, forced, provider_result, persisted, ret_validation, ret_symbols,
                          ret_snapshot>>
           /\ UNCHANGED outside_cache

\* A call of InstrumentCache.get_instrument_by_symbol(symbol).
InstrumentLookup ==
    \E symbol \in Queries :
        LET r == get_instrument_by_symbol(cache, cache_file, now, symbol)
        IN /\ cache' = r.c
           /\ query' = symbol
           /\ ret_instrument' = r.ret
           /\ op' = "get_instrument_by_symbol"
           /\ UNCHANGED <<now, cache_file, valid_instruments, forced, provider_result, persisted, ret_validation,
                          ret_symbols, ret_snapshot, ret_is_option>>
           /\ UNCHANGED outside_lookup

\* A call of InstrumentCache.is_option_symbol(symbol).
OptionLookup ==
    \E symbol \in Queries :
        LET r == is_option_symbol(cache, cache_file, now, symbol)
        IN /\ cache' = r.c
           /\ query' = symbol
           /\ ret_is_option' = r.ret
           /\ op' = "is_option_symbol"
           /\ UNCHANGED <<now, cache_file, valid_instruments, forced, provider_result, persisted, ret_validation,
                          ret_symbols, ret_snapshot, ret_instrument>>
           /\ UNCHANGED outside_lookup

LookupStart ==
    /\ query = ""
    /\ ret_instrument = None
    /\ ret_is_option = FALSE

----------------------------------------------------------------------------
(* Part 4: save_instruments statement by statement, next to a reading thread.
   The reading thread's lookups (InstrumentLookup, OptionLookup) are taken as
   single steps; the saving thread can be preempted between its statements. *)

\* One turn of the loop of _build_lookups (lines 80-91) on the lookups of c.
insert_instrument(c, instrument) ==
    IF instrument.kind = "dict" /\ instrument.id_symbol # ""
    THEN LET sym == instrument.id_symbol
         IN [c EXCEPT
               !.symbol_to_instrument =
                   [s \in (DOMAIN @) \cup {sym} |-> IF s = sym THEN instrument ELSE @[s]],
               !.all_symbols = Some(@[1] \cup {sym}),
               !.options_symbols =
                   IF instrument.cficode \in OptionCfiCodes THEN Some(@[1] \cup {sym}) ELSE @]
    ELSE c

\* save_instruments lines 153-163: cache_data is built and becomes the
\* memory snapshot.
SaveBegin ==
    \E instruments \in Listings :
        LET cache_data == [timestamp |-> now, ttl_minutes |-> ttl_minutes,
                           instruments |-> instruments, count |-> Len(instruments),
                           metadata |-> "pyRofexClient"]
        IN /\ wpc = "idle"
           /\ cache' = [cache EXCEPT !.memory_cache = Some(cache_data),
                                     !.memory_cache_timestamp = Some(now)]
           /\ wdata' = Some(cache_data)
           /\ old_snapshot' = cache.memory_cache
           /\ wpc' = "reset"
           /\ op' = "save_begin"
           /\ UNCHANGED <<now, cache_file, valid_instruments, forced, provider_result, persisted, ret_validation,
                          ret_symbols, ret_snapshot, wnext>>
           /\ UNCHANGED outside_rebuild

\* _build_lookups lines 76-78: the three lookups are replaced by empty ones.
RebuildReset ==
    /\ wpc = "reset"
    /\ cache' = [cache EXCEPT !.symbol_to_instrument = <<>>,
                              !.options_symbols = Some({}),
                              !.all_symbols = Some({})]
    /\ wnext' = 1
    /\ wpc' = "fill"
    /\ op' = "rebuild_reset"
    /\ UNCHANGED <<now, cache_file, valid_instruments, forced, provider_result, persisted, ret_validation,
                   ret_symbols, ret_snapshot, wdata, old_snapshot>>
    /\ UNCHANGED outside_rebuild

\* _build_lookups lines 80-91: the next instrument is entered.
RebuildInsert ==
    /\ wpc = "fill"
    /\ wnext <= Len(wdata[1].instruments)
    /\ cache' = insert_instrument(cache, wdata[1].instruments[wnext])
    /\ wnext' = wnext + 1
    /\ op' = "rebuild_insert"
    /\ UNCHANGED <<now, cache_file, valid_instruments, forced, provider_result, persisted, ret_validation,
                   ret_symbols, ret_snapshot, wpc, wdata, old_snapshot>>
    /\ UNCHANGED outside_rebuild

\* save_instruments lines 168-175: the file is written (or the write raises
\* and is logged) and the call returns.
SaveWriteFile ==
    \E writeOk \in BOOLEAN :
        /\ wpc = "fill"
        /\ wnext > Len(wdata[1].instruments)
        /\ cache_file' = IF writeOk THEN wdata ELSE cache_file
        /\ wpc' = "idle"
        /\ op' = "save_write_file"
        /\ UNCHANGED <<now, cache, valid_instruments, forced, provider_result, persisted, ret_validation,
                       ret_symbols, ret_snapshot, wdata, wnext, old_snapshot>>
        /\ UNCHANGED outside_rebuild

RebuildStart ==
    /\ wpc = "idle"
    /\ wdata = None
    /\ wnext = 1
    /\ old_snapshot = None

----------------------------------------------------------------------------
(* Part 5: excel/sheet_operations.py and utils/helpers.py.
   A symbol text is the sequence of its parts, the parts being what " - "
   separates: "MERV - XMEV - GGAL - 24hs" is <<"MERV","XMEV","GGAL","24hs">>.
   An empty cell is <<>>. *)

\* prefix = "MERV - XMEV - "
prefix == <<"MERV", "XMEV">>

\* symbol.startswith(prefix)
starts_with_prefix(symbol) ==
    Len(symbol) > Len(prefix) /\ SubSeq(symbol, 1, Len(prefix)) = prefix

\* A symbol is the sequence of the pieces its text has between the " - "
\* separators; <<>> is None (an empty cell) and <<"">> the empty string, the
\* two values 'not symbol' is true of.

\* mutant: the prefix is added whether it is there or not
restore_symbol_prefix_always(display_symbol) ==
    IF display_symbol = <<>> \/ display_symbol = <<"">> THEN display_symbol
    ELSE prefix \o display_symbol

\* helpers.restore_symbol_prefix
restore_symbol_prefix(display_symbol) ==
    IF display_symbol = <<>> \/ display_symbol = <<"">> THEN display_symbol
    ELSE IF starts_with_prefix(display_symbol) THEN display_symbol
    ELSE prefix \o display_symbol

\* helpers.clean_symbol_for_display(symbol)
clean_symbol_for_display(symbol) ==
    IF symbol = <<>> \/ symbol = <<"">> THEN symbol
    ELSE IF starts_with_prefix(symbol) THEN SubSeq(symbol, Len(prefix) + 1, Len(symbol))
    ELSE symbol

\* The signature of helpers.clean_symbol_for_display has the one parameter
\* symbol; _add_symbols_to_sheet calls it with the keyword is_option
\* (sheet_operations.py line 375), which Python answers with a TypeError.
clean_symbol_for_display_accepts_is_option == FALSE

\* [" - 24hs", " - 48hs", " - 72hs", " - CI", " - T0", " - T1", " - T2"]
suffixes == {"24hs", "48hs", "72hs", "CI", "T0", "T1", "T2"}

\* The symbol a cell of column A stands for (lines 190-203): the prefix is
\* restored, and " - 24hs" is added when no suffix is present and the text
\* does not contain PESOS.
full_symbol_of(cell_value) ==
    LET full_symbol == restore_symbol_prefix(cell_value)
        has_suffix == Len(full_symbol) >= 2 /\ Last(full_symbol) \in suffixes
        has_pesos == \E i \in 1..Len(full_symbol) : full_symbol[i] = "PESOS"
    IN IF ~has_suffix /\ ~has_pesos THEN Append(full_symbol, "24hs") ELSE full_symbol

\* dict[key] = value
dict_set(d, key, value) ==
    [k \in (DOMAIN d) \cup {key} |-> IF k = key THEN value ELSE d[k]]

\* The loop of lines 187-210 from cell idx on: the index and the list of
\* duplicate rows.
RECURSIVE build_symbol_row_cache(_, _, _, _)
build_symbol_row_cache(symbols, idx, cache_so_far, duplicate_rows) ==
    IF idx > Len(symbols) THEN [cache |-> cache_so_far, duplicate_rows |-> duplicate_rows]
    ELSE IF symbols[idx] = <<>>
    THEN build_symbol_row_cache(symbols, idx + 1, cache_so_far, duplicate_rows)
    ELSE LET full_symbol == full_symbol_of(symbols[idx])
         IN IF full_symbol \in DOMAIN cache_so_far
            THEN build_symbol_row_cache(symbols, idx + 1, cache_so_far,
                                        Append(duplicate_rows, idx + 1))
            ELSE build_symbol_row_cache(symbols, idx + 1,
                                        dict_set(cache_so_far, full_symbol, idx + 1),
                                        duplicate_rows)

\* Elements of a sequence as a set
Range(seq) == { seq[i] : i \in 1..Len(seq) }

\* mutant: the rows are deleted from top to bottom
sorted_ascending(row_numbers) ==
    LET rows == Range(row_numbers)
    IN [i \in 1..Cardinality(rows) |->
            CHOOSE r \in rows : Cardinality({q \in rows : q < r}) = i - 1]

\* sorted(row_numbers, reverse=True), the row numbers being distinct
sorted_rows_of(row_numbers) ==
    LET rows == Range(row_numbers)
    IN [i \in 1..Cardinality(rows) |->
            CHOOSE r \in rows : Cardinality({q \in rows : q > r}) = i - 1]

\* sheet.range('r:r').api.Delete(): the rows below move up by one.
delete_row(cells, row_num) ==
    IF row_num - 1 \in 1..Len(cells)
    THEN SubSeq(cells, 1, row_num - 2) \o SubSeq(cells, row_num, Len(cells))
    ELSE cells

\* The loop of _remove_duplicate_rows (lines 330-332) over the first
\* count rows of sorted_rows.
RECURSIVE delete_rows(_, _, _)
delete_rows(cells, sorted_rows, count) ==
    IF count = 0 THEN cells
    ELSE delete_row(delete_rows(cells, sorted_rows, count - 1), sorted_rows[count])

field_order ==
    <<"bid_size", "bid", "ask", "ask_size", "last", "change", "open", "high", "low",
      "previous_close", "turnover", "volume", "operations", "datetime">>

\* A float that is NaN (or infinite); the quotes themselves are not negative.
NaN == -1

\* helpers.get_excel_safe_value on a number
get_excel_safe_value(value) == IF value = NaN THEN 0 ELSE value

\* mutant: a missing field is written as a no-op instead of 0
row_values_skipping_missing(row_data) ==
    [k \in 1..Len(field_order) |->
        IF field_order[k] \in DOMAIN row_data
        THEN Some(get_excel_safe_value(row_data[field_order[k]]))
        ELSE None]

\* The inner loop of lines 238-244: the values of one row of the batch in
\* field order, 0 for a field the row lacks.
row_values(row_data) ==
    [k \in 1..Len(field_order) |->
        IF field_order[k] \in DOMAIN row_data
        THEN Some(get_excel_safe_value(row_data[field_order[k]]))
        ELSE Some(0)]

\* [None] * len(field_order)
no_op_line == [k \in 1..Len(field_order) |-> None]

\* Lines 234-245: updates_by_row, the row values by row number; a later row
\* of the batch replaces an earlier one for the same row number.
updates_by_row_of(cache_dict, d) ==
    LET known == { i \in 1..Len(d) : d[i].symbol \in DOMAIN cache_dict }
        rows == { cache_dict[d[i].symbol] : i \in known }
        last_for(r) == CHOOSE i \in known :
                          /\ cache_dict[d[i].symbol] = r
                          /\ \A j \in known : cache_dict[d[j].symbol] = r => j <= i
    IN [r \in rows |-> row_values(d[last_for(r)].row_data)]

\* Lines 248-264: the one range write B{min_row}:O{max_row}.
bulk_write_of(updates_by_row) ==
    LET rows == DOMAIN updates_by_row
        min_row == CHOOSE r \in rows : \A q \in rows : r <= q
        max_row == CHOOSE r \in rows : \A q \in rows : q <= r
    IN [min_row |-> min_row, max_row |-> max_row,
        bulk_data |-> [i \in 1..(max_row - min_row + 1) |->
                          IF (min_row + i - 1) \in rows
                          THEN updates_by_row[min_row + i - 1] ELSE no_op_line]]

\* Writing values into column A from start_row on; rows between the end of
\* the column and start_row stay empty.
write_column(cells, start_row, values) ==
    LET end_row == start_row + Len(values) - 1
        length == IF end_row - 1 > Len(cells) THEN end_row - 1 ELSE Len(cells)
    IN [i \in 1..length |->
            IF i + 1 >= start_row /\ i + 1 <= end_row THEN values[i + 2 - start_row]
            ELSE IF i <= Len(cells) THEN cells[i] ELSE <<>>]

\* The loop of lines 366-382 on the index: cache[symbol] = start_row + i
RECURSIVE cache_with_added(_, _, _)
cache_with_added(cache_dict, symbols, start_row) ==
    IF symbols = <<>> THEN cache_dict
    ELSE cache_with_added(dict_set(cache_dict, Head(symbols), start_row),
                          Tail(symbols), start_row + 1)

\* SheetOperations._add_symbols_to_sheet(sheet, symbols), symbols not empty.
\* write_raises: the range write of line 386 raises.  The index is updated
\* symbol by symbol before the write.
add_symbols_to_sheet(cells, cache_dict, symbols, write_raises) ==
    LET last_row ==
            IF DOMAIN cache_dict # {}
            THEN CHOOSE r \in { cache_dict[sym] : sym \in DOMAIN cache_dict } :
                     \A sym \in DOMAIN cache_dict : cache_dict[sym] <= r
            ELSE Cardinality({ i \in 1..Len(cells) : cells[i] # <<>> }) + 1
        start_row == last_row + 1
        symbol_data == [i \in 1..Len(symbols) |-> clean_symbol_for_display(symbols[i])]
    IN IF ~clean_symbol_for_display_accepts_is_option
       THEN [raised |-> TRUE, cells |-> cells, cache |-> cache_dict]
       ELSE IF write_raises
       THEN [raised |-> TRUE, cells |-> cells,
             cache |-> cache_with_added(cache_dict, symbols, start_row)]
       ELSE [raised |-> FALSE, cells |-> write_column(cells, start_row, symbol_data),
             cache |-> cache_with_added(cache_dict, symbols, start_row)]

\* Symbols of the market-data table (everything_df.index).
SymGGAL == <<"MERV", "XMEV", "GGAL", "24hs">>

SymAL30 == <<"MERV", "XMEV", "AL30", "CI">>

SymGD30 == <<"MERV", "XMEV", "GD30", "24hs">>

SymPESOS3D == <<"MERV", "XMEV", "PESOS", "3D">>

\* The row of a DataFrame: the quote of the instrument numbered code, every
\* field of field_order except those in lacking.
Quote(code, lacking) ==
    [f \in Range(field_order) \ lacking |->
        100 * code + (CHOOSE k \in 1..Len(field_order) : field_order[k] = f)]

\* The batches given to the cycle.  The rows of a DataFrame have the same
\* columns; every batch has the columns bid, ask and last, which the cycle
\* reads for its log (lines 161-165).  A DataFrame made by concatenation can
\* name a symbol twice.
DataFrames ==
    { << [symbol |-> SymGGAL, row_data |-> Quote(1, {})] >>,
      << [symbol |-> SymGGAL, row_data |-> Quote(1, {"operations"})],
         [symbol |-> SymAL30, row_data |-> Quote(2, {"operations"})] >>,
      << [symbol |-> SymAL30, row_data |-> [Quote(2, {}) EXCEPT !["bid"] = NaN]] >>,
      << [symbol |-> SymGGAL, row_data |-> Quote(1, {})],
         [symbol |-> SymGGAL, row_data |-> Quote(3, {})] >>,
      << [symbol |-> SymGGAL, row_data |-> Quote(1, {})],
         [symbol |-> SymGD30, row_data |-> Quote(4, {})] >>,
      << [symbol |-> SymPESOS3D, row_data |-> Quote(5, {})],
         [symbol |-> SymAL30, row_data |-> Quote(2, {})] >> }

\* What column A of the HomeBroker sheet holds when the session starts.
InitialSheets ==
    { <<>>,
      << <<"GGAL", "24hs">>, <<"AL30", "CI">> >>,
      << <<"GGAL", "24hs">>, <<>>, <<"AL30", "CI">> >>,
      << <<"GGAL", "24hs">>, <<"GGAL", "24hs">>, <<"AL30", "CI">> >>,
      << <<"GGAL", "24hs">>, <<"AL30", "CI">>, <<"GGAL">>, SymAL30, <<"PESOS", "3D">> >>,
      << <<"PESOS", "3D">>, <<"GGAL">>, <<"GGAL">>, <<"AL30", "CI">>, <<"GGAL", "24hs">>,
         <<"AL30", "CI">> >> }

\* The sink operations of an update cycle that can raise: the header check,
\* a row deletion (the first, or the second of several), the append of new
\* symbols, the bulk write, the write of the repo side table.
FailPoints == {"none", "headers", "delete_1", "delete_2", "append", "bulk", "cauciones"}

\* The arguments and the failure of one cycle: the side table is written
\* only when cauciones_df is given.
CycleInputs ==
    { in \in [d : DataFrames, with_cauciones : BOOLEAN, fail : FailPoints] :
        in.with_cauciones <=> in.fail = "cauciones" }

\* mutant: the except clause of the cycle does not count the error
cycle_failed_uncounted(stats) ==
    [stats |-> stats, ret |-> FALSE]

\* The except clause of update_market_data_to_homebroker_sheet (lines 275-278)
cycle_failed(stats) ==
    [stats |-> [stats EXCEPT !.errors = @ + 1], ret |-> FALSE]

\* Line 172: not hasattr(self, '_symbol_row_cache') or updates_performed == 0
needs_build(cache_opt, stats) ==
    cache_opt = None \/ stats.updates_performed = 0

\* The index build of a cycle (lines 172-218): the header check, the read of
\* column A, the index and the duplicate repair.  fail: the sink operation
\* that raises if the cycle gets to it.
build_stage(cells, headers, cache_opt, stats, fail) ==
    LET rebuild == needs_build(cache_opt, stats)
        headers_raise == rebuild /\ fail = "headers"
        built == build_symbol_row_cache(cells, 1, <<>>, <<>>)
        sorted_rows == IF rebuild /\ fail # "headers"
                       THEN sorted_rows_of(built.duplicate_rows) ELSE <<>>
        deletions == IF fail = "delete_1" THEN 0
                     ELSE IF fail = "delete_2" THEN Min(1, Len(sorted_rows))
                     ELSE Len(sorted_rows)
    IN [read_sink |-> rebuild /\ fail # "headers",
        has_headers |-> headers \/ (rebuild /\ fail # "headers"),
        cells |-> delete_rows(cells, sorted_rows, deletions),
        cache |-> IF rebuild /\ fail # "headers" THEN Some(built.cache) ELSE cache_opt,
        deleted |-> SubSeq(sorted_rows, 1, deletions),
        failing |-> IF headers_raise THEN "headers"
                    ELSE IF deletions < Len(sorted_rows) THEN fail
                    ELSE "none"]

\* The symbols of the batch the index lacks, in batch order (line 222).
missing_symbols_of(cache_dict, d) ==
    LET idx == { i \in 1..Len(d) : d[i].symbol \notin DOMAIN cache_dict }
    IN [k \in 1..Cardinality(idx) |->
            d[CHOOSE i \in idx : Cardinality({j \in idx : j < i}) = k - 1].symbol]

\* The auto-provisioning of a cycle (lines 220-226), b being what the index
\* build left.
append_stage(b, d, fail) ==
    IF b.failing # "none" THEN b
    ELSE LET missing_symbols == missing_symbols_of(b.cache[1], d)
             a == add_symbols_to_sheet(b.cells, b.cache[1], missing_symbols,
                                       fail = "append")
         IN IF missing_symbols = <<>> THEN b
            ELSE [b EXCEPT !.cells = a.cells,
                           !.cache = Some(a.cache),
                           !.failing = IF ~a.raised THEN "none"
                                       ELSE IF clean_symbol_for_display_accepts_is_option
                                       THEN "append" ELSE "type_error"]

\* The quote write of a cycle (lines 228-266), a being what the
\* auto-provisioning left: the writes issued and the operation that raised.
write_stage(a, d, fail) ==
    IF a.failing # "none" THEN [quote_writes |-> <<>>, failing |-> a.failing]
    ELSE LET updates_by_row == updates_by_row_of(a.cache[1], d)
         IN IF DOMAIN updates_by_row = {} THEN [quote_writes |-> <<>>, failing |-> "none"]
            ELSE IF fail = "bulk" THEN [quote_writes |-> <<>>, failing |-> "bulk"]
            ELSE [quote_writes |-> << bulk_write_of(updates_by_row) >>, failing |-> "none"]

\* The end of a cycle (lines 268-278), a and w being what the stages before
\* left: the side table is written when cauciones_df is given, and its
\* failure is not raised; the counters and the value returned.
finish_stage(a, w, stats, with_cauciones, fail) ==
    LET outcome == IF w.failing # "none" THEN cycle_failed(stats)
                   ELSE [stats |-> [stats EXCEPT !.updates_performed = @ + 1],
                         ret |-> TRUE]
    IN [sheet |-> a.cells,
        has_headers |-> a.has_headers,
        cache |-> a.cache,
        stats |-> outcome.stats,
        ret |-> outcome.ret,
        read_sink |-> a.read_sink,
        deleted |-> a.deleted,
        quote_writes |-> w.quote_writes,
        failing |-> IF w.failing # "none" THEN w.failing
                    ELSE IF with_cauciones /\ fail = "cauciones" THEN "cauciones"
                    ELSE "none"]

\* The stages from the auto-provisioning on
cycle_after_build(b, stats, d, with_cauciones, fail) ==
    LET a == append_stage(b, d, fail)
    IN finish_stage(a, write_stage(a, d, fail), stats, with_cauciones, fail)

\* mutant: the cycle has no early return for an empty df
update_cycle_always_runs(cells, headers, cache_opt, stats, d, with_cauciones, fail) ==
    cycle_after_build(build_stage(cells, headers, cache_opt, stats, fail),
                      stats, d, with_cauciones, fail)

\* SheetOperations.update_market_data_to_homebroker_sheet(df, sheet_name,
\* cauciones_df).  with_cauciones: cauciones_df holds repo symbols.  fail: the
\* sink operation that raises if the cycle gets to it.  An empty df returns
\* True at once (lines 154-157).
update_cycle(cells, headers, cache_opt, stats, d, with_cauciones, fail) ==
    IF d = <<>>
    THEN [sheet |-> cells, has_headers |-> headers, cache |-> cache_opt,
          stats |-> stats, ret |-> TRUE, read_sink |-> FALSE, deleted |-> <<>>,
          quote_writes |-> <<>>, failing |-> "none"]
    ELSE cycle_after_build(build_stage(cells, headers, cache_opt, stats, fail),
                           stats, d, with_cauciones, fail)

\* One turn of the loop of EPGBOptionsApp.run: update_excel_with_current_data
\* calls the update cycle when everything_df is not empty.
UpdateCycle ==
    \E in \in CycleInputs :
        LET r == update_cycle(sheet, has_headers, symbol_row_cache, update_stats,
                              in.d, in.with_cauciones, in.fail)
        IN /\ update_stats.updates_performed < MaxCounter
           /\ update_stats.errors < MaxCounter
           /\ sheet' = r.sheet
           /\ has_headers' = r.has_headers
           /\ symbol_row_cache' = r.cache
           /\ update_stats' = r.stats
           /\ df' = in.d
           /\ cauciones_df' = in.with_cauciones
           /\ failing' = r.failing
           /\ ret_cycle' = r.ret
           /\ read_sink' = r.read_sink
           /\ deleted' = r.deleted
           /\ quote_writes' = r.quote_writes
           /\ built_before' = (built_before \/ r.read_sink)
           /\ op' = "update_cycle"
           /\ UNCHANGED outside_sheet

\* The cycle called with an empty df, whatever cauciones_df holds and
\* whatever the sink would do.
UpdateCycleEmpty ==
    \E with_cauciones \in BOOLEAN, fail \in FailPoints :
        LET r == update_cycle(sheet, has_headers, symbol_row_cache, update_stats,
                              <<>>, with_cauciones, fail)
        IN /\ with_cauciones <=> fail = "cauciones"
           /\ sheet' = r.sheet
           /\ has_headers' = r.has_headers
           /\ symbol_row_cache' = r.cache
           /\ update_stats' = r.stats
           /\ df' = <<>>
           /\ cauciones_df' = with_cauciones
           /\ failing' = r.failing
           /\ ret_cycle' = r.ret
           /\ read_sink' = r.read_sink
           /\ deleted' = r.deleted
           /\ quote_writes' = r.quote_writes
           /\ built_before' = (built_before \/ r.read_sink)
           /\ op' = "update_cycle_empty"
           /\ UNCHANGED outside_sheet

\* SheetOperations.write_range on some other range of the workbook.
write_range ==
    \E ok \in BOOLEAN :
        /\ update_stats.updates_performed < MaxCounter
        /\ update_stats.errors < MaxCounter
        /\ update_stats' = IF ok THEN [update_stats EXCEPT !.updates_performed = @ + 1]
                           ELSE [update_stats EXCEPT !.errors = @ + 1]
        /\ op' = "write_range"
        /\ UNCHANGED <<sheet, has_headers, symbol_row_cache, df, cauciones_df, failing,
                       ret_cycle, read_sink, deleted, quote_writes, built_before>>
        /\ UNCHANGED outside_sheet

\* SheetOperations.reset_stats
reset_stats ==
    /\ update_stats' = [updates_performed |-> 0, errors |-> 0]
    /\ op' = "reset_stats"
    /\ UNCHANGED <<sheet, has_headers, symbol_row_cache, df, cauciones_df, failing,
                   ret_cycle, read_sink, deleted, quote_writes, built_before>>
    /\ UNCHANGED outside_sheet

\* SheetOperations.__init__, and the sink as the session finds it.
SheetStart ==
    /\ sheet \in InitialSheets
    /\ has_headers = (sheet # <<>>)
    /\ symbol_row_cache = None
    /\ update_stats = [updates_performed |-> 0, errors |-> 0]
    /\ df = <<>>
    /\ cauciones_df = FALSE
    /\ failing = "none"
    /\ ret_cycle = TRUE
    /\ read_sink = FALSE
    /\ deleted = <<>>
    /\ quote_writes = <<>>
    /\ built_before = FALSE

\* The parts a specification other than SheetSpec leaves untouched start
\* from an empty sheet.
SheetIdle ==
    /\ SheetStart
    /\ sheet = <<>>

----------------------------------------------------------------------------
(* Part 6: the message normalizer (market_data/websocket_handler.py,
   utils/validation.py) *)

\* Python values of a message.  Numbers are counted in hundredths (10250 is
\* 102.50).  PyText is a string float() rejects ('N/A'); PyInf is the float
\* infinity, or a string float() reads as infinity ('inf', '1e999').
PyNum(n) == [kind |-> "num", v |-> n]

PyText == [kind |-> "text"]

PyInf == [kind |-> "inf"]

PyNone == [kind |-> "none"]

PyList(items) == [kind |-> "list", items |-> items]

PyDict(d) == [kind |-> "dict", d |-> d]

\* d.get(key) on a dict value
py_get(d, key) == IF key \in DOMAIN d.d THEN d.d[key] ELSE PyNone

\* float(value) raises ValueError or TypeError
float_raises(value) == value.kind \notin {"num", "inf"}

\* safe_float_conversion(value), default 0.0
safe_float_conversion(value) ==
    IF value.kind = "none" THEN PyNum(0)
    ELSE IF float_raises(value) THEN PyNum(0)
    ELSE value

\* safe_int_conversion(value), default 0: int(float(value)) drops the
\* fraction; int() of an infinity raises OverflowError, which the function
\* does not catch.
safe_int_conversion(value) ==
    IF value.kind = "none" THEN [raised |-> FALSE, v |-> PyNum(0)]
    ELSE IF float_raises(value) THEN [raised |-> FALSE, v |-> PyNum(0)]
    ELSE IF value.kind = "inf" THEN [raised |-> TRUE, v |-> PyNum(0)]
    ELSE [raised |-> FALSE, v |-> PyNum((value.v \div 100) * 100)]

\* mutant: every symbol is valid
validate_symbol_any(symbol) == TRUE

\* validate_symbol: a non-empty text ("" stands for an empty or missing symbol)
validate_symbol(symbol) == symbol # ""

\* The top-level fields validate_market_data converts with float()
numeric_fields == {"last", "bid", "ask", "volume"}

\* validate_market_data(data), data being a dict.  instrumentId: None when
\* the key is absent, else <<symbol>>.  top: the top-level fields of
\* numeric_fields the message has.
validate_market_data(data) ==
    /\ data.instrumentId # None
    /\ validate_symbol(data.instrumentId[1])
    /\ \A field \in numeric_fields :
          field \in DOMAIN data.top => ~float_raises(data.top[field])

\* extract_price of _process_market_data: a number, or a dict with 'price'
extract_price(value) ==
    IF value.kind = "dict" THEN safe_float_conversion(py_get(value, "price"))
    ELSE safe_float_conversion(value)

\* The first level of a book side: bids[0] if bids and isinstance(bids, list) else {}
best_level(side) ==
    IF side.kind = "list" /\ side.items # <<>> THEN side.items[1] ELSE PyDict(<<>>)

\* level.get(key) if isinstance(level, dict) else None
level_get(level, key) == IF level.kind = "dict" THEN py_get(level, key) ELSE PyNone

\* mutant: the ratio itself, without the - 1
change_of_ratio(last_price, previous_close) ==
    IF last_price.kind = "num" /\ previous_close.kind = "num"
       /\ last_price.v # 0 /\ previous_close.v # 0
    THEN PyNum((last_price.v * 10000) \div previous_close.v)
    ELSE PyNum(0)

\* change = (last / previous_close) - 1 under `if last_price and
\* previous_close and previous_close != 0`, else 0.0.  A change is counted
\* in ten-thousandths (50 is 0.005).  The messages of the model carry finite
\* last and closing prices whose quotient is exact in ten-thousandths.
change_of(last_price, previous_close) ==
    IF last_price.kind = "num" /\ previous_close.kind = "num"
       /\ last_price.v # 0 /\ previous_close.v # 0
    THEN PyNum((last_price.v * 10000) \div previous_close.v - 10000)
    ELSE PyNum(0)

\* The part of _process_market_data that builds data_row (lines 125-189) at
\* time t.  marketData: None when the message lacks the key (the code then
\* reads an empty dict), else <<value>>.  raised: an exception left the
\* function (the value of marketData is not a dict, or a conversion raised).
build_data_row(msg, t) ==
    IF msg.marketData # None /\ msg.marketData[1].kind # "dict"
    THEN [raised |-> TRUE, data_row |-> None]
    ELSE LET market_data == IF msg.marketData = None THEN PyDict(<<>>)
                            ELSE msg.marketData[1]
             best_bid == best_level(py_get(market_data, "BI"))
             best_offer == best_level(py_get(market_data, "OF"))
             last_trade == py_get(market_data, "LA")
             last_price == safe_float_conversion(level_get(last_trade, "price"))
             previous_close == extract_price(py_get(market_data, "CL"))
             bid_size == safe_int_conversion(level_get(best_bid, "size"))
             ask_size == safe_int_conversion(level_get(best_offer, "size"))
             volume == safe_int_conversion(py_get(market_data, "NV"))
             operations == safe_int_conversion(py_get(market_data, "TC"))
         IN IF bid_size.raised \/ ask_size.raised \/ volume.raised \/ operations.raised
            THEN [raised |-> TRUE, data_row |-> None]
            ELSE [raised |-> FALSE,
                  data_row |-> Some(
                    [bid_size |-> bid_size.v,
                     bid |-> safe_float_conversion(level_get(best_bid, "price")),
                     ask |-> safe_float_conversion(level_get(best_offer, "price")),
                     ask_size |-> ask_size.v,
                     last |-> last_price,
                     change |-> change_of(last_price, previous_close),
                     open |-> extract_price(py_get(market_data, "OP")),
                     high |-> extract_price(py_get(market_data, "HI")),
                     low |-> extract_price(py_get(market_data, "LO")),
                     previous_close |-> previous_close,
                     turnover |-> safe_float_conversion(py_get(market_data, "EV")),
                     volume |-> volume.v,
                     operations |-> operations.v,
                     datetime |-> PyNum(t)])]

\* Symbols of the messages: a share and an option of the listing, a repo,
\* a PESOS symbol with another settlement, a 3D symbol of another currency,
\* and a symbol without ' - '.
MessageSymbols == {"GGAL", "GFGC", "PESOS3D", "PESOS24hs", "DOLAR3D", "ZZZZ"}

\* The text of a symbol: its ' - ' separated segments, a segment being the
\* pieces its text is made of ("3D" is "3" then "D").
symbol_text(symbol) ==
    CASE symbol = "GGAL" -> << <<"MERV">>, <<"XMEV">>, <<"GGAL">>, <<"24", "hs">> >>
      [] symbol = "GFGC" -> << <<"MERV">>, <<"XMEV">>, <<"GFGC">>, <<"24", "hs">> >>
      [] symbol = "PESOS3D" -> << <<"MERV">>, <<"XMEV">>, <<"PESOS">>, <<"3", "D">> >>
      [] symbol = "PESOS24hs" -> << <<"MERV">>, <<"XMEV">>, <<"PESOS">>, <<"24", "hs">> >>
      [] symbol = "DOLAR3D" -> << <<"MERV">>, <<"XMEV">>, <<"DOLAR">>, <<"3", "D">> >>
      [] OTHER -> << <<symbol>> >>

\* mutant: 'PESOS' in symbol alone
is_caucion_symbol_any_settlement(symbol) ==
    LET segments == symbol_text(symbol)
    IN \E i \in DOMAIN segments : \E j \in DOMAIN segments[i] : segments[i][j] = "PESOS"

\* _is_caucion_symbol: 'PESOS' in symbol and symbol.split(' - ')[-1].endswith('D')
is_caucion_symbol(symbol) ==
    LET segments == symbol_text(symbol)
        last_segment == segments[Len(segments)]
    IN /\ \E i \in DOMAIN segments : \E j \in DOMAIN segments[i] : segments[i][j] = "PESOS"
       /\ last_segment[Len(last_segment)] = "D"

\* The columns the symbol loader gives the securities and repo tables
\* (excel/symbol_loader.py lines 181-190 and 244-254) and the options table
\* (lines 92-102).
securities_columns ==
    {"bid", "ask", "bid_size", "ask_size", "last", "change", "volume", "datetime"}

options_columns ==
    {"bid", "ask", "bidsize", "asksize", "last", "change", "volume", "datetime"}

\* A table of the symbol loader: every column 0.
loaded_table(symbols, columns) == [sym \in symbols |-> [col \in columns |-> PyNum(0)]]

\* update_df.rename(columns={"bid_size": "bidsize", "ask_size": "asksize"})
renamed_for_options(row) ==
    [col \in (DOMAIN row \ {"bid_size", "ask_size"}) \cup {"bidsize", "asksize"} |->
        IF col = "bidsize" THEN row["bid_size"]
        ELSE IF col = "asksize" THEN row["ask_size"]
        ELSE row[col]]

\* mutant: a column already set keeps its value
table_updated_once(table, symbol, update_row) ==
    IF DOMAIN table # {} /\ symbol \in DOMAIN table
    THEN [table EXCEPT ![symbol] =
            [col \in DOMAIN table[symbol] |->
                IF col \in DOMAIN update_row /\ table[symbol][col] = PyNum(0)
                THEN update_row[col] ELSE table[symbol][col]]]
    ELSE table

\* The body shared by _update_options_data, _update_securities_data and
\* _update_cauciones_data: when the table is not empty and holds the symbol,
\* every column of the update the table has is assigned.
table_updated(table, symbol, update_row) ==
    IF DOMAIN table # {} /\ symbol \in DOMAIN table
    THEN [table EXCEPT ![symbol] =
            [col \in DOMAIN table[symbol] |->
                IF col \in DOMAIN update_row THEN update_row[col] ELSE table[symbol][col]]]
    ELSE table

\* The numeric values of a message, by where they stand in marketData.
Paths == {"BI.price", "BI.size", "OF.price", "OF.size", "LA.price",
          "OP", "CL", "HI", "LO", "EV", "NV", "TC"}

\* What can be wrong with one of them: the key is missing, or the value is
\* None, a text that is no number, or infinite.
Defects == {"missing", "none", "text", "inf"}

\* The value at path: n, or the defect dk when the path is dp.
field_value(path, n, dp, dk) ==
    IF path # dp THEN PyNum(n)
    ELSE IF dk = "none" THEN PyNone
    ELSE IF dk = "text" THEN PyText
    ELSE PyInf

dropped(path, dp, dk) == path = dp /\ dk = "missing"

\* One level of the book: {'price': p, 'size': s}
level_of(price_path, size_path, p, s, dp, dk) ==
    PyDict([k \in { x \in {"price", "size"} :
                      ~dropped(IF x = "price" THEN price_path ELSE size_path, dp, dk) } |->
              IF k = "price" THEN field_value(price_path, p, dp, dk)
              ELSE field_value(size_path, s, dp, dk)])

\* marketData of a pyRofex message with every entry, the value at dp
\* replaced by the defect dk (no defect when dp is "").
market_data_of(dp, dk) ==
    PyDict([k \in { x \in {"BI", "OF", "LA", "OP", "CL", "HI", "LO", "EV", "NV", "TC"} :
                      ~dropped(x, dp, dk) } |->
        CASE k = "BI" -> PyList(<< level_of("BI.price", "BI.size", 10200, 1000, dp, dk) >>)
          [] k = "OF" -> PyList(<< level_of("OF.price", "OF.size", 10300, 2000, dp, dk) >>)
          [] k = "LA" -> PyDict([x \in { y \in {"price"} : ~dropped("LA.price", dp, dk) } |->
                                    field_value("LA.price", 10500, dp, dk)])
          [] k = "OP" -> field_value("OP", 10100, dp, dk)
          [] k = "CL" -> field_value("CL", 10000, dp, dk)
          [] k = "HI" -> field_value("HI", 10600, dp, dk)
          [] k = "LO" -> field_value("LO", 9900, dp, dk)
          [] k = "EV" -> field_value("EV", 500000, dp, dk)
          [] k = "NV" -> field_value("NV", 5000, dp, dk)
          [] k = "TC" -> field_value("TC", 4500, dp, dk)])

\* market_data with the entry key set to value
market_data_with(market_data, key, value) ==
    PyDict([k \in DOMAIN market_data.d \cup {key} |->
              IF k = key THEN value ELSE market_data.d[k]])

\* A message: instrumentId.symbol (None when the message has no
\* instrumentId), the top-level fields among numeric_fields, marketData.
Msg(symbol_opt, top, market_data_opt) ==
    [instrumentId |-> symbol_opt, top |-> top, marketData |-> market_data_opt]

\* The messages the provider sends: the complete message for each symbol;
\* for the share, the message with one defective value, with a top-level
\* field, with an empty book side, with a price given as {'price': p}, with
\* a fractional volume, with another last price, with a last or closing
\* price of 0; and messages without marketData, without symbol.
Messages ==
    { Msg(Some(sym), <<>>, Some(market_data_of("", "none"))) : sym \in MessageSymbols }
    \cup { Msg(Some("GGAL"), <<>>, Some(market_data_of(pd[1], pd[2]))) :
             pd \in { x \in Paths \X Defects :
                        ~(x[2] = "inf" /\ x[1] \in {"LA.price", "CL"}) } }
    \cup { Msg(Some("GGAL"), [f \in {field} |-> v], Some(market_data_of("", "none"))) :
             field \in numeric_fields, v \in {PyNum(10300), PyText} }
    \cup { Msg(Some("GGAL"), <<>>,
               Some(market_data_with(market_data_of("", "none"), "OF", PyList(<<>>)))),
           Msg(Some("GGAL"), <<>>,
               Some(market_data_with(market_data_of("", "none"), "OP",
                                     PyDict([price |-> PyNum(10100)])))),
           Msg(Some("GGAL"), <<>>,
               Some(market_data_with(market_data_of("", "none"), "NV", PyNum(5050)))),
           Msg(Some("GGAL"), <<>>,
               Some(market_data_with(market_data_of("", "none"), "LA",
                                     PyDict([price |-> PyNum(10050)])))),
           Msg(Some("GGAL"), <<>>,
               Some(market_data_with(market_data_of("", "none"), "LA",
                                     PyDict([price |-> PyNum(0)])))),
           Msg(Some("GGAL"), <<>>,
               Some(market_data_with(market_data_of("", "none"), "CL", PyNum(0)))),
           Msg(Some("GGAL"), <<>>, Some(PyNone)),
           Msg(Some("GGAL"), <<>>, None),
           Msg(Some(""), <<>>, Some(market_data_of("", "none"))),
           Msg(None, <<>>, Some(market_data_of("", "none"))) }

\* WebSocketHandler.market_data_handler(message).  The update callback
\* (main.py _on_data_update) records a time and logs.
market_data_handler ==
    \E msg \in Messages :
        LET received == [connection_stats EXCEPT !.messages_received = @ + 1]
            built == build_data_row(msg, now)
        IN /\ connection_stats.messages_received < MaxMessages
           /\ message' = msg
           /\ IF ~validate_market_data(msg)
              THEN /\ connection_stats' = [received EXCEPT !.errors = @ + 1]
                   /\ handled' = "invalid"
                   /\ data_row' = None
                   /\ routed' = {}
                   /\ UNCHANGED <<everything_df, options_df, handler_cauciones_df, cache,
                                  notified>>
              ELSE IF built.raised
              THEN \* _handle_processing_error
                   /\ connection_stats' = [received EXCEPT !.errors = @ + 1]
                   /\ handled' = "error"
                   /\ data_row' = None
                   /\ routed' = {}
                   /\ UNCHANGED <<everything_df, options_df, handler_cauciones_df, cache,
                                  notified>>
              ELSE LET symbol == msg.instrumentId[1]
                       row == built.data_row[1]
                       opt == is_option_symbol(cache, cache_file, now, symbol)
                   IN /\ connection_stats' = [received EXCEPT !.messages_processed = @ + 1]
                      /\ handled' = "processed"
                      /\ data_row' = built.data_row
                      /\ cache' = opt.c
                      /\ notified' = IF on_data_update THEN Append(notified, symbol)
                                     ELSE notified
                      /\ IF opt.ret
                         THEN /\ options_df' = table_updated(options_df, symbol,
                                                             renamed_for_options(row))
                              /\ routed' = {"_update_options_data"}
                              /\ UNCHANGED <<everything_df, handler_cauciones_df>>
                         ELSE IF is_caucion_symbol(symbol)
                         THEN /\ handler_cauciones_df' =
                                     table_updated(handler_cauciones_df, symbol, row)
                              /\ routed' = {"_update_cauciones_data"}
                              /\ UNCHANGED <<everything_df, options_df>>
                         ELSE /\ everything_df' = table_updated(everything_df, symbol, row)
                              /\ routed' = {"_update_securities_data"}
                              /\ UNCHANGED <<options_df, handler_cauciones_df>>
           /\ op' = "market_data_handler"
           /\ UNCHANGED <<outside_norm, on_data_update>>

\* WebSocketHandler.__init__ and set_data_references with the tables of the
\* symbol loader: everything_df holds the securities and the repos (main.py
\* lines 150-155); the repo table is left out, as main.py line 187 does, or
\* given; the update callback is set (main.py line 188) or not.
NormStart ==
    /\ connection_stats = [messages_received |-> 0, messages_processed |-> 0, errors |-> 0]
    /\ everything_df = loaded_table({"GGAL", "PESOS3D"}, securities_columns)
    /\ options_df = loaded_table({"GFGC"}, options_columns)
    /\ handler_cauciones_df \in { <<>>, loaded_table({"PESOS3D"}, securities_columns) }
    /\ message = Msg(None, <<>>, None)
    /\ data_row = None
    /\ handled = "none"
    /\ routed = {}
    /\ on_data_update \in BOOLEAN
    /\ notified = <<>>

\* The parts a specification other than NormSpec leaves untouched.
NormIdle ==
    /\ NormStart
    /\ handler_cauciones_df = <<>>
    /\ on_data_update = FALSE

----------------------------------------------------------------------------
(* Part 7: the repo side table (SheetOperations._update_cauciones_table) *)

\* A symbol of the table: the ' - ' separated segments before the last one,
\* and the last segment as a number followed by a unit ("3D", "24hs").
SideSymbol(parts, days, unit) == [parts |-> parts, days |-> days, unit |-> unit]

\* 'MERV - XMEV - PESOS - nD'
RepoSymbol(n) == SideSymbol(<<"MERV", "XMEV", "PESOS">>, n, "D")

\* The symbols a table can hold: repos of 3, 5, 33, 60 and 61 days, a PESOS
\* symbol settling in 24hs, a 3D symbol of another currency, and a repo
\* symbol without the two leading segments.
SideSymbols ==
    { RepoSymbol(n) : n \in {3, 5, 33, 60, 61} }
    \cup { SideSymbol(<<"MERV", "XMEV", "PESOS">>, 24, "hs"),
           SideSymbol(<<"MERV", "XMEV", "DOLAR">>, 3, "D"),
           SideSymbol(<<"PESOS">>, 3, "D") }

\* The row of the table for a symbol: amounts and rates in hundredths; the
\* rates are zero when the table has no quote yet.
SideRow(sym, quoted) ==
    [last |-> IF quoted THEN 3000 + 100 * sym.days ELSE 0,
     volume |-> 100000 * sym.days,
     bid_size |-> 1000 * sym.days,
     bid |-> IF quoted THEN 2900 + 100 * sym.days ELSE 0,
     ask |-> IF quoted THEN 3100 + 100 * sym.days ELSE 0,
     ask_size |-> 2000 * sym.days]

\* The tables: distinct symbols in index order, all quoted or none.
SideTables ==
    { t \in UNION { [1..n -> [symbol : SideSymbols, quoted : BOOLEAN]] :
                      n \in 1..MaxSideRows } :
        \A i, j \in DOMAIN t :
            /\ i # j => t[i].symbol # t[j].symbol
            /\ t[i].quoted = t[j].quoted }

\* 'PESOS' in sym and 'D' in sym.split(' - ')[-1]
in_caucion_symbols(sym) ==
    /\ \E i \in DOMAIN sym.parts : sym.parts[i] = "PESOS"
    /\ sym.unit = "D"

\* mutant: row i + 1 for every period, 60D included
period_to_row_plain(sym) ==
    IF Len(sym.parts) = 3 /\ sym.unit = "D" /\ sym.days \in 1..60
    THEN Some(sym.days + 1)
    ELSE None

\* period_to_row.get(parts[3]) when len(parts) >= 4: the keys are "1D" to
\* "60D", the row is i + 1, and 34 for "60D".
period_to_row(sym) ==
    IF Len(sym.parts) = 3 /\ sym.unit = "D" /\ sym.days \in 1..60
    THEN Some(IF sym.days = 60 THEN 34 ELSE sym.days + 1)
    ELSE None

\* raw / 100 if raw else 0
rate_of(raw) == IF raw # 0 THEN raw \div 100 ELSE 0

\* [vencimiento, tasa, monto, monto_tomador, tasa_tomadora, tasa_colocadora,
\* monto_colocador] of an entry of the table
side_values(entry, day) ==
    LET row_data == SideRow(entry.symbol, entry.quoted)
    IN << Some(day + entry.symbol.days), Some(rate_of(row_data.last)),
          Some(row_data.volume), Some(row_data.bid_size), Some(rate_of(row_data.bid)),
          Some(rate_of(row_data.ask)), Some(row_data.ask_size) >>

\* The entries of the table that give an update: a caucion symbol whose
\* period has a row.
updating(table) ==
    { i \in DOMAIN table :
        in_caucion_symbols(table[i].symbol) /\ period_to_row(table[i].symbol) # None }

\* updates_dict: the updates are sorted by row, and of two updates of one
\* row the later one of the table stays.
updates_dict(table, day) ==
    [ row_num \in { period_to_row(table[i].symbol)[1] : i \in updating(table) } |->
        LET i == CHOOSE k \in updating(table) :
                    /\ period_to_row(table[k].symbol)[1] = row_num
                    /\ \A m \in updating(table) :
                          period_to_row(table[m].symbol)[1] = row_num => m <= k
        IN side_values(table[i], day) ]

\* [None] * 7
no_update == << None, None, None, None, None, None, None >>

\* The writes of _update_cauciones_table(sheet, df): none without updates,
\* else the range S{min_row}:Y{max_row} with the rows between filled by None.
cauciones_table_writes(table, day) ==
    LET updates == updates_dict(table, day)
        rows == DOMAIN updates
    IN IF rows = {} THEN << >>
       ELSE LET min_row == CHOOSE r \in rows : \A q \in rows : r <= q
                max_row == CHOOSE r \in rows : \A q \in rows : q <= r
            IN << [first_column |-> "S", min_row |-> min_row,
                   last_column |-> "Y", max_row |-> max_row,
                   value |-> [row_idx \in min_row..max_row |->
                                 IF row_idx \in rows THEN updates[row_idx]
                                 ELSE no_update]] >>

\* SheetOperations._update_cauciones_table(sheet, df)
update_cauciones_table ==
    \E table \in SideTables, day \in {100, 101} :
        /\ side_df' = table
        /\ today' = day
        /\ side_writes' = cauciones_table_writes(table, day)
        /\ op' = "_update_cauciones_table"
        /\ UNCHANGED outside_side

\* Before the first call.
SideStart ==
    /\ side_df = << >>
    /\ today = 100
    /\ side_writes = << >>

----------------------------------------------------------------------------
(* Part 8: the application loop (main.py) *)

\* initialize(): the sink is connected first, then the provider client is
\* initialized; run() returns to its finally clause when a step fails.
AppInitialize ==
    \E outcome \in {"ok", "excel_failed", "client_failed"} :
        /\ app_pc = "initialize"
        /\ workbook_connected' = (outcome # "excel_failed")
        /\ api_initialized' = (outcome = "ok")
        /\ app_pc' = IF outcome = "ok" THEN "subscribe" ELSE "finally"
        /\ op' = "initialize"
        /\ UNCHANGED <<is_running, quotes_received, quotes_written, excel_updates, outside_app>>

\* start_market_data_subscription()
start_market_data_subscription ==
    \E success \in BOOLEAN :
        /\ app_pc = "subscribe"
        /\ is_running' = success
        /\ app_pc' = IF success THEN "loop" ELSE "finally"
        /\ op' = "start_market_data_subscription"
        /\ UNCHANGED <<workbook_connected, api_initialized, quotes_received, quotes_written,
                       excel_updates, outside_app>>

\* The provider delivers a message and the handler updates everything_df
\* (the provider's thread, while the connection is open).
QuoteArrives ==
    /\ api_initialized
    /\ app_pc = "loop"
    /\ quotes_received < MaxQuotes
    /\ quotes_received' = quotes_received + 1
    /\ op' = "quote"
    /\ UNCHANGED <<app_pc, is_running, workbook_connected, api_initialized, quotes_written,
                   excel_updates, outside_app>>

\* One turn of `while self.is_running`: update_excel_with_current_data(),
\* which writes everything_df to the sink unless the write fails, and
\* time.sleep(1).
update_excel_with_current_data ==
    \E success \in BOOLEAN :
        /\ app_pc = "loop"
        /\ is_running
        /\ excel_updates < MaxCycles
        /\ excel_updates' = excel_updates + 1
        /\ quotes_written' = IF success THEN quotes_received ELSE quotes_written
        /\ op' = "update_excel_with_current_data"
        /\ UNCHANGED <<app_pc, is_running, workbook_connected, api_initialized,
                       quotes_received, outside_app>>

\* KeyboardInterrupt, or another exception, raised in the loop: control
\* passes to the finally clause of run().
LoopInterrupted ==
    \E kind \in {"KeyboardInterrupt", "Exception"} :
        /\ app_pc = "loop"
        /\ app_pc' = "finally"
        /\ op' = kind
        /\ UNCHANGED <<is_running, workbook_connected, api_initialized, quotes_received,
                       quotes_written, excel_updates, outside_app>>

\* shutdown(), the finally clause of run(): is_running is cleared, the
\* provider connection is closed and the workbook disconnected; nothing is
\* written to the sink.
shutdown ==
    /\ app_pc = "finally"
    /\ is_running' = FALSE
    /\ api_initialized' = FALSE
    /\ workbook_connected' = FALSE
    /\ app_pc' = "returned"
    /\ op' = "shutdown"
    /\ UNCHANGED <<quotes_received, quotes_written, excel_updates, outside_app>>

\* EPGBOptionsApp.__init__ and the start of run()
AppStart ==
    /\ app_pc = "initialize"
    /\ is_running = FALSE
    /\ workbook_connected = FALSE
    /\ api_initialized = FALSE
    /\ quotes_received = 0
    /\ quotes_written = 0
    /\ excel_updates = 0

----------------------------------------------------------------------------
(* Part 9: the symbol display helpers of utils/helpers.py, called one after
   the other as test_symbol_display.py does, and the key the index build
   of sheet_operations.py makes of a cell they produced. *)

\* The symbols given to the helpers: up to MaxPrefixes copies of the prefix
\* followed by up to MaxRest pieces, among them the symbols of the test
\* ("MERV - XMEV - GGAL - 24hs", "GGAL - 24hs"), the bare prefix
\* "MERV - XMEV - ", the empty string and None.
DisplaySymbols ==
    LET pieces == {"MERV", "GGAL", "24hs", ""}
        rests == UNION { [1..n -> pieces] : n \in 0..MaxRest }
        RECURSIVE prefixed(_, _)
        prefixed(k, rest) == IF k = 0 THEN rest ELSE prefix \o prefixed(k - 1, rest)
    IN { prefixed(k, rest) : k \in 0..MaxPrefixes, rest \in rests }

\* clean_symbol_for_display(symbol), on a new symbol or on the value the
\* call before returned.
CleanSymbol ==
    \E symbol \in DisplaySymbols \cup {display_ret} :
        /\ display_arg' = symbol
        /\ display_ret' = clean_symbol_for_display(symbol)
        /\ display_from' = IF symbol = display_ret THEN op ELSE ""
        /\ display_origin' = IF symbol = display_ret THEN display_arg ELSE <<>>
        /\ op' = "clean_symbol_for_display"
        /\ UNCHANGED outside_display

\* restore_symbol_prefix(display_symbol), on a new symbol or on the value
\* the call before returned.
RestoreSymbol ==
    \E display_symbol \in DisplaySymbols \cup {display_ret} :
        /\ display_arg' = display_symbol
        /\ display_ret' = restore_symbol_prefix(display_symbol)
        /\ display_from' = IF display_symbol = display_ret THEN op ELSE ""
        /\ display_origin' = IF display_symbol = display_ret THEN display_arg ELSE <<>>
        /\ op' = "restore_symbol_prefix"
        /\ UNCHANGED outside_display

\* The key the index build gives a cell of column A that is not empty
\* (sheet_operations.py lines 188-203), on a new text or on the value the
\* call before returned.
ReadSymbolCell ==
    \E cell_value \in (DisplaySymbols \cup {display_ret}) \ {<<>>, <<"">>} :
        /\ display_arg' = cell_value
        /\ display_ret' = full_symbol_of(cell_value)
        /\ display_from' = IF cell_value = display_ret THEN op ELSE ""
        /\ display_origin' = IF cell_value = display_ret THEN display_arg ELSE <<>>
        /\ op' = "full_symbol"
        /\ UNCHANGED outside_display

\* No helper has been called.
DisplayStart ==
    /\ display_arg = <<>>
    /\ display_ret = <<>>
    /\ display_from = ""
    /\ display_origin = <<>>

----------------------------------------------------------------------------
(* Part 10: the handler's thread and the loop of run() on one row of
   everything_df.  pyRofex calls market_data_handler on its own thread; the
   handler is given the DataFrame object the loop hands to the update cycle
   (main.py lines 187 and 270-273). *)

\* One turn of the loop of _update_securities_data (lines 248-253): the
\* next column of the message in hand is assigned to the row; between
\* messages, the first column of the next message.  Every value of message
\* number m is written as m.
StoreColumn ==
    LET in_table(col) == col \in securities_columns
        columns == SelectSeq(field_order, in_table)
        m == IF stored = 0 THEN msg_no + 1 ELSE msg_no
    IN /\ m <= MaxArrivals
       /\ shared_row' = [shared_row EXCEPT ![columns[stored + 1]] = m]
       /\ msg_no' = m
       /\ stored' = IF stored + 1 = Len(columns) THEN 0 ELSE stored + 1
       /\ op' = "_update_securities_data"
       /\ UNCHANGED sink_row
       /\ UNCHANGED outside_torn

\* The update cycle of the loop on that row (sheet_operations.py lines
\* 235-262): df.iterrows() reads the row as it stands and the bulk write
\* puts its values in the sink.
WriteRow ==
    /\ sink_row' = Some(shared_row)
    /\ op' = "update_market_data_to_homebroker_sheet"
    /\ UNCHANGED <<shared_row, msg_no, stored>>
    /\ UNCHANGED outside_torn

\* The row as the symbol loader made it: every column 0 (message 0).
TornStart ==
    /\ shared_row = [col \in securities_columns |-> 0]
    /\ msg_no = 0
    /\ stored = 0
    /\ sink_row = None

----------------------------------------------------------------------------
(* Initial states and specifications *)

\* The cache file the handler's instrument cache finds: none, or the
\* listing a client saved.
NormCacheStart ==
    /\ now = 0
    /\ cache = new_cache
    /\ cache_file \in { None,
                        save_instruments(new_cache, None, 0, ListingEquityAndOption,
                                         "pyRofexClient", TRUE).f }
    /\ valid_instruments = {}
    /\ forced = FALSE
    /\ provider_result = "not_called"
    /\ persisted = "not_called"
    /\ ret_validation = [valid |-> << >>, invalid |-> << >>]
    /\ ret_symbols = {}
    /\ ret_snapshot = None

CacheStart ==
    /\ now = 0
    /\ cache = new_cache
    /\ cache_file = None
    /\ valid_instruments = {}
    /\ forced = FALSE
    /\ provider_result = "not_called"
    /\ persisted = "not_called"
    /\ ret_validation = [valid |-> << >>, invalid |-> << >>]
    /\ ret_symbols = {}
    /\ ret_snapshot = None

ConnInit ==
    /\ mainpc = "connect"
    /\ reconnection_attempts = 0
    /\ connection_status = [is_connected |-> FALSE, total_reconnections |-> 0,
                            consecutive_failures |-> 0]
    /\ subscribed = {}
    /\ error = <<>>
    /\ events = <<>>
    /\ slept = 0
    /\ failed_run = 0
    /\ lost_subscriptions = {}
    /\ via_reconnect = FALSE
    /\ escaped = FALSE
    /\ op = "start"

Init ==
    /\ ConnInit /\ CacheStart /\ LookupStart /\ RebuildStart /\ SheetIdle /\ NormIdle
    /\ SideStart /\ AppStart /\ DisplayStart /\ TornStart

SheetInit ==
    /\ ConnInit /\ CacheStart /\ LookupStart /\ RebuildStart /\ SheetStart /\ NormIdle
    /\ SideStart /\ AppStart /\ DisplayStart /\ TornStart

NormInit ==
    /\ ConnInit /\ NormCacheStart /\ LookupStart /\ RebuildStart /\ SheetIdle /\ NormStart
    /\ SideStart /\ AppStart /\ DisplayStart /\ TornStart

Next ==
    \/ InitialConnectOk
    \/ InitialConnectFails
    \/ MainSubscribe
    \/ ErrorCallback
    \/ ExceptionCallback

Spec == Init /\ [][Next]_vars

\* The module-level code runs on; the provider's error callbacks are the
\* environment's and are under no obligation to arrive.
FairSpec ==
    /\ Init /\ [][Next]_vars
    /\ WF_vars(InitialConnectOk \/ InitialConnectFails)
    /\ WF_vars(MainSubscribe)

CacheNext ==
    \/ fetch_available_instruments
    \/ CachedInstrumentsRead
    \/ clear_cache
    \/ Restart
    \/ Tick

CacheSpec == Init /\ [][CacheNext]_vars

ValidateNext ==
    \/ fetch_available_instruments
    \/ validate_symbols
    \/ clear_cache
    \/ Restart
    \/ Tick

ValidateSpec == Init /\ [][ValidateNext]_vars

LookupNext ==
    \/ SaveInstruments
    \/ InstrumentLookup
    \/ OptionLookup
    \/ clear_cache
    \/ Restart
    \/ Tick

LookupSpec == Init /\ [][LookupNext]_vars

RebuildNext ==
    \/ SaveBegin
    \/ RebuildReset
    \/ RebuildInsert
    \/ SaveWriteFile
    \/ InstrumentLookup
    \/ OptionLookup

RebuildSpec == Init /\ [][RebuildNext]_vars

SheetNext ==
    \/ UpdateCycle
    \/ UpdateCycleEmpty
    \/ write_range
    \/ reset_stats

SheetSpec == SheetInit /\ [][SheetNext]_vars

NormNext == market_data_handler

NormSpec == NormInit /\ [][NormNext]_vars

SideNext == update_cauciones_table

SideSpec == Init /\ [][SideNext]_vars

AppNext ==
    \/ AppInitialize
    \/ start_market_data_subscription
    \/ QuoteArrives
    \/ update_excel_with_current_data
    \/ LoopInterrupted
    \/ shutdown

AppSpec == Init /\ [][AppNext]_vars

TornNext == StoreColumn \/ WriteRow

TornSpec == Init /\ [][TornNext]_vars

DisplayNext == CleanSymbol \/ RestoreSymbol \/ ReadSymbolCell

DisplaySpec == Init /\ [][DisplayNext]_vars

----------------------------------------------------------------------------
(* Properties of the feed session *)

HandlerOps == {"error_callback", "initial_connect_failed"}

AttemptMade(ev) == Len(ev) >= 3 /\ ev[3] = "reconnection_attempt"

AttemptFailed(ev) == Len(ev) >= 4 /\ ev[4] = "reconnection_failed"

\* C1: the delay slept before a reconnection attempt is the entry min(n, 5)
\* (0-based) of 1, 2, 4, 8, 15, 30, n being the number of consecutive failed
\* attempts so far; within a run of failed attempts the delay never
\* decreases and it is 30 from the sixth attempt on.
C1_BackoffSchedule ==
    [][ (op' \in HandlerOps /\ AttemptMade(events')) =>
            /\ slept' = <<1, 2, 4, 8, 15, 30>>[Min(failed_run, 5) + 1]
            /\ (failed_run > 0 => slept' >= slept)
            /\ (failed_run >= 5 => slept' = 30) ]_vars

C1_Witness ==
    /\ op = "error_callback"
    /\ AttemptFailed(events)
    /\ failed_run >= 7
    /\ slept = 30

\* C2: the attempt counter becomes 0 in every step that establishes a
\* connection and in no other step: a failed attempt leaves it incremented, a
\* non-connection error and every other operation leave it as it was.
C2_ResetOnlyOnSuccess ==
    [][ /\ (op' \in (HandlerOps \cup {"initial_connect"}) /\ Last(events') = "connected")
            => reconnection_attempts' = 0
        /\ (op' \in HandlerOps /\ AttemptFailed(events'))
            => reconnection_attempts' = reconnection_attempts + 1
        /\ ~(op' \in (HandlerOps \cup {"initial_connect"}) /\ AttemptMade(events'))
            => (reconnection_attempts' = reconnection_attempts
                \/ (op' = "initial_connect" /\ Last(events') = "connected")) ]_vars

C2_Witness ==
    /\ op = "error_callback"
    /\ Last(events) = "connected"
    /\ slept = 4
    /\ reconnection_attempts = 0
    /\ connection_status.is_connected

\* C3: the attempt counter stays within 0..10, and from a state in which it
\* is 10 no step changes it, makes a reconnection attempt, reports the
\* session connected or touches the subscriptions.
C3_BoundedAndTerminal ==
    [][ /\ reconnection_attempts' \in 0..10
        /\ reconnection_attempts = 10 =>
              /\ reconnection_attempts' = 10
              /\ ~connection_status'.is_connected
              /\ subscribed' = subscribed
              /\ slept' = slept
              /\ connection_status'.total_reconnections
                    = connection_status.total_reconnections
              /\ (op' \in HandlerOps => ~AttemptMade(events')) ]_vars

C3_Witness ==
    /\ reconnection_attempts = 10
    /\ op = "error_callback"
    /\ Last(events) = "reconnection_exhausted"

\* C4: once a reconnection attempt has failed with the counter below the
\* maximum, the session eventually is connected again or exhausted.
C4_EventuallyConnectedOrExhausted ==
    (mainpc = "run" /\ AttemptFailed(events) /\ ~connection_status.is_connected
        /\ reconnection_attempts < max_reconnection_attempts)
    ~> (connection_status.is_connected
        \/ reconnection_attempts >= max_reconnection_attempts)

\* C5: whenever the handler has re-established the session and the session is
\* reported connected, every instrument that was subscribed when the session
\* was lost is subscribed again.
C5_FullResubscription ==
    (mainpc = "run" /\ via_reconnect /\ connection_status.is_connected)
        => lost_subscriptions \subseteq subscribed

\* The texts of ErrorTexts whose lower-cased form contains a keyword:
\* "connection"/"timeout", "network"/"unreachable", "closed".
ConnectionClassTexts == {ErrConnectionTimeout, ErrNetworkUnreachable, ErrSocketClosedUpper}

\* C6: the handler takes the non-connection branch exactly for the texts
\* that contain no connection keyword once lower-cased, and in that branch
\* the attempt counter, the connection status and the subscriptions stay as
\* they were.
C6_NonConnectionErrorIgnored ==
    [][ op' \in HandlerOps =>
            /\ (Last(events') = "non_connection_error") <=> (error' \notin ConnectionClassTexts)
            /\ error' \notin ConnectionClassTexts =>
                  UNCHANGED <<reconnection_attempts, connection_status, subscribed, slept>> ]_vars

C6_Witness ==
    /\ op = "error_callback"
    /\ Last(events) = "non_connection_error"
    /\ error = ErrAuthenticationFailed
    /\ connection_status.is_connected
    /\ subscribed = Universe

----------------------------------------------------------------------------
(* Properties of the instrument cache *)

api_called == provider_result # "not_called"

WithinTTL(snapshot, t) == snapshot # None /\ t - snapshot[1].timestamp <= ttl_minutes

\* The symbol set of a stored snapshot, read by either of the two routines.
SnapshotSymbolSets(snapshot) ==
    { extract_symbols(snapshot[1].instruments), build_lookups(snapshot[1]).all_symbols[1] }

\* C7: a cache read returns a snapshot held in memory or in the file whenever
\* that snapshot was saved at most ttl_minutes ago, and never returns a
\* snapshot saved longer ago than ttl_minutes.
C7_TTLBoundary ==
    [][ op' = "get_cached_instruments" =>
            /\ (WithinTTL(cache.memory_cache, now) \/ WithinTTL(cache_file, now))
                  => ret_snapshot' # None
            /\ ret_snapshot' # None => now - ret_snapshot'[1].timestamp <= ttl_minutes ]_vars

\* C8: a refresh calls the provider exactly when it is forced or neither the
\* memory snapshot nor the file snapshot was saved within ttl_minutes.
C8_FetchExactlyWhenStale ==
    [][ op' = "fetch_available_instruments" =>
            (api_called' <=>
                (forced' \/ ~(WithinTTL(cache.memory_cache, now) \/ WithinTTL(cache_file, now)))) ]_vars

\* C9: when the provider call raises and the cache file holds the most
\* recent snapshot (nothing newer is in memory), the refresh returns the
\* symbols of the file's snapshot, whatever the snapshot's age.
C9_StaleFallback ==
    [][ ( /\ op' = "fetch_available_instruments"
          /\ provider_result' = "raised"
          /\ cache_file # None
          /\ cache.memory_cache \in {None, cache_file} )
        => ret_symbols' \in SnapshotSymbolSets(cache_file) ]_vars

\* C10: a non-forced refresh that directly follows a refresh which saved a
\* listing (same minute) returns the symbol set a fetch of that listing
\* returns, without calling the provider.
C10_RoundTrip ==
    [][ ( /\ op = "fetch_available_instruments"
          /\ cache.memory_cache # None
          /\ cache.memory_cache = cache_file
          /\ cache.memory_cache[1].timestamp = now
          /\ op' = "fetch_available_instruments"
          /\ ~forced' )
        => /\ ~api_called'
           /\ ret_symbols' = extract_symbols(cache.memory_cache[1].instruments) ]_vars

----------------------------------------------------------------------------
(* Properties of the lookups *)

\* The instruments of the snapshot in memory (none when there is no snapshot).
memory_instruments(c) ==
    IF c.memory_cache = None THEN <<>> ELSE c.memory_cache[1].instruments

\* The instruments of a listing that carry the symbol, by the extraction the
\* refresh uses for the symbols it reports (symbol_of).
instruments_for(instruments, symbol) ==
    { instruments[i] : i \in { j \in 1..Len(instruments) : symbol_of(instruments[j]) = symbol } }

\* C11: after a lookup, with S the snapshot the cache holds: for a symbol of
\* S get_instrument_by_symbol returns the instrument of S for that symbol and
\* is_option_symbol is true exactly when that instrument's cficode is OCASPS
\* or OPASPS; for a symbol not in S the lookups return None and false.
C11_LookupConsistent ==
    [][ LET found == instruments_for(memory_instruments(cache'), query')
        IN /\ op' = "get_instrument_by_symbol" =>
                 IF found = {} THEN ret_instrument' = None
                 ELSE ret_instrument' # None /\ ret_instrument'[1] \in found
           /\ op' = "is_option_symbol" =>
                 (ret_is_option' <=> \E i \in found : i.cficode \in OptionCfiCodes) ]_vars

\* What a lookup answers on a cache that holds the snapshot completely
\* (None: on a cache without snapshot and without file).
option_answer_on(snapshot, symbol) ==
    IF snapshot = None THEN is_option_symbol(new_cache, None, now, symbol).ret
    ELSE is_option_symbol(with_memory(snapshot[1], now), None, now, symbol).ret

instrument_answer_on(snapshot, symbol) ==
    IF snapshot = None THEN get_instrument_by_symbol(new_cache, None, now, symbol).ret
    ELSE get_instrument_by_symbol(with_memory(snapshot[1], now), None, now, symbol).ret

\* C12: a lookup made while a save is in progress answers what the complete
\* old snapshot or the complete new snapshot answers.
C12_ReaderSeesWholeSnapshot ==
    [][ wpc # "idle" =>
          /\ op' = "is_option_symbol" =>
                ret_is_option' \in { option_answer_on(old_snapshot, query'),
                                     option_answer_on(wdata, query') }
          /\ op' = "get_instrument_by_symbol" =>
                ret_instrument' \in { instrument_answer_on(old_snapshot, query'),
                                      instrument_answer_on(wdata, query') } ]_vars

\* When a stepwise save has returned, the cache is what save_instruments
\* as one step makes it.
StepwiseSaveAgrees ==
    (wpc = "idle" /\ op = "save_write_file") =>
        cache = with_memory(wdata[1], wdata[1].timestamp)

----------------------------------------------------------------------------
(* Properties of the sink synchronizer *)

\* Row r of the sink holds symbol sym in column A.
RowHolds(cells, r, sym) ==
    /\ r - 1 \in 1..Len(cells)
    /\ cells[r - 1] # <<>>
    /\ full_symbol_of(cells[r - 1]) = sym

SinkFailures == FailPoints \ {"none"}

CycleCompleted == op = "update_cycle" /\ ret_cycle

\* The rows the batch of the last cycle is indexed on.
PendingRows ==
    { symbol_row_cache[1][df[i].symbol] :
        i \in { j \in 1..Len(df) : df[j].symbol \in DOMAIN symbol_row_cache[1] } }

\* The line of the block for a row of the batch: the 14 values in field
\* order, 0 for a NaN and for a field the row lacks.
ExpectedLine(row_data) ==
    [k \in 1..14 |->
        IF field_order[k] \notin DOMAIN row_data THEN Some(0)
        ELSE IF row_data[field_order[k]] = NaN THEN Some(0)
        ELSE Some(row_data[field_order[k]])]

\* C13: a completed cycle with pending rows R has issued exactly one quote
\* write, over rows min R .. max R, whose block has one line per row: for a
\* row of R the 14 values of a batch row of the symbol indexed there, for
\* any other row 14 None.
C13_OneBatchedWrite ==
    (CycleCompleted /\ PendingRows # {}) =>
        /\ Len(quote_writes) = 1
        /\ LET w == quote_writes[1]
           IN /\ w.min_row \in PendingRows /\ \A r \in PendingRows : w.min_row <= r
              /\ w.max_row \in PendingRows /\ \A r \in PendingRows : r <= w.max_row
              /\ Len(w.bulk_data) = w.max_row - w.min_row + 1
              /\ \A r \in w.min_row..w.max_row :
                    LET line == w.bulk_data[r - w.min_row + 1]
                    IN IF r \in PendingRows
                       THEN \E i \in 1..Len(df) :
                               /\ symbol_row_cache[1][df[i].symbol] = r
                               /\ line = ExpectedLine(df[i].row_data)
                       ELSE line = [k \in 1..14 |-> None]

\* A completed cycle wrote rows 2 and 4 and left row 3 alone, one of the
\* written rows lacking a field.
C13_Witness ==
    /\ CycleCompleted
    /\ Len(quote_writes) = 1
    /\ quote_writes[1].min_row = 2
    /\ quote_writes[1].max_row = 4
    /\ quote_writes[1].bulk_data[2] = [k \in 1..14 |-> None]
    /\ \E i \in 1..Len(df) : "operations" \notin DOMAIN df[i].row_data

\* The rows of column A that repeat the symbol of a row above them.
DuplicateRows(cells) ==
    { r \in 2..(Len(cells) + 1) :
        /\ cells[r - 1] # <<>>
        /\ \E q \in 2..(r - 1) : RowHolds(cells, q, full_symbol_of(cells[r - 1])) }

\* Column A without the cells of the given rows.
RECURSIVE WithoutRows(_, _)
WithoutRows(cells, rows) ==
    IF cells = <<>> THEN <<>>
    ELSE LET front == WithoutRows(SubSeq(cells, 1, Len(cells) - 1), rows)
         IN IF (Len(cells) + 1) \in rows THEN front ELSE Append(front, cells[Len(cells)])

\* C14: a cycle that builds the index and whose deletions do not fail
\* deletes exactly the rows that repeat a symbol of a row above, in strictly
\* descending order; the remaining rows are kept in place and order, and
\* afterwards no symbol is on two rows.
C14_DuplicateRepair ==
    [][ (op' = "update_cycle" /\ read_sink' /\ failing' \notin {"delete_1", "delete_2"}) =>
          LET kept == WithoutRows(sheet, DuplicateRows(sheet))
          IN /\ Range(deleted') = DuplicateRows(sheet)
             /\ \A i, j \in 1..Len(deleted') : i < j => deleted'[i] > deleted'[j]
             /\ Len(sheet') >= Len(kept) /\ SubSeq(sheet', 1, Len(kept)) = kept
             /\ DuplicateRows(sheet') = {} ]_vars

C14_Witness ==
    /\ op = "update_cycle"
    /\ read_sink
    /\ Len(deleted) = 3
    /\ failing \notin {"delete_1", "delete_2"}

\* C15: after a cycle that built the index and repaired duplicates, every
\* symbol of the index is indexed on the row of the sink that holds it.
C15_IndexMatchesSinkAfterRepair ==
    (CycleCompleted /\ read_sink /\ deleted # <<>>) =>
        \A sym \in DOMAIN symbol_row_cache[1] :
            RowHolds(sheet, symbol_row_cache[1][sym], sym)

\* C16: after a completed update cycle no two symbols of the index share a
\* row and no symbol occupies two rows of the sink (a symbol has at most one
\* indexed row because the index is a function of the symbol).
C16_MappingOneToOne ==
    CycleCompleted =>
        /\ \A s1, s2 \in DOMAIN symbol_row_cache[1] :
              symbol_row_cache[1][s1] = symbol_row_cache[1][s2] => s1 = s2
        /\ DuplicateRows(sheet) = {}

\* The index a cycle starts its search for missing symbols with: the one
\* built from the sink when the cycle builds it, else the one kept.
IndexBeforeAppend ==
    IF read_sink' THEN build_symbol_row_cache(sheet, 1, <<>>, <<>>).cache
    ELSE symbol_row_cache[1]

\* C17: in an update cycle in which no sink operation fails, the symbols of
\* the batch absent from the index are appended on the rows right after the
\* last indexed row (from row 2 on an empty index), the index gains exactly
\* those symbols on those rows, and the quote write of the cycle covers them.
C17_MissingSymbolsAppended ==
    [][ (op' = "update_cycle" /\ failing' \notin SinkFailures) =>
          LET before == IndexBeforeAppend
              missing == { df'[i].symbol : i \in 1..Len(df') } \ DOMAIN before
              last_row == IF DOMAIN before = {} THEN 1
                          ELSE CHOOSE r \in { before[sym] : sym \in DOMAIN before } :
                                  \A sym \in DOMAIN before : before[sym] <= r
          IN /\ ret_cycle'
             /\ DOMAIN symbol_row_cache'[1] = DOMAIN before \cup missing
             /\ \A sym \in missing :
                   /\ symbol_row_cache'[1][sym] \in
                          (last_row + 1)..(last_row + Cardinality(missing))
                   /\ RowHolds(sheet', symbol_row_cache'[1][sym], sym)
                   /\ \E k \in 1..Len(quote_writes') :
                         symbol_row_cache'[1][sym] \in
                             quote_writes'[k].min_row..quote_writes'[k].max_row ]_vars

\* C18: once a cycle has built the index from the sink, no later cycle reads
\* the symbol column of the sink again.
C18_IndexBuiltOnce ==
    [][ (op' = "update_cycle" /\ built_before) => ~read_sink' ]_vars

\* C19 as stated: whichever sink operation of an update cycle fails, the
\* error counter is incremented, and the cycle returns False, or True when
\* only the write of the repo side table failed.
C19_EveryFailureCounted ==
    [][ (op' = "update_cycle" /\ failing' \in SinkFailures) =>
          /\ update_stats'.errors = update_stats.errors + 1
          /\ ret_cycle' <=> (failing' = "cauciones") ]_vars

\* C19 amended: a failure inside an update cycle is caught.  When the header
\* check, a deletion, the append or the bulk write fails, the cycle returns
\* False, the error counter is incremented and the update counter is left
\* alone; when only the write of the repo side table fails, the cycle returns
\* True, counts an update and no error.  The cycle after a failed one, if
\* nothing fails in it, completes and issues the quote write of its batch.
C19_FailureCaught ==
    [][ op' = "update_cycle" =>
          /\ failing' \notin {"none", "cauciones"} =>
                /\ ~ret_cycle'
                /\ update_stats'.errors = update_stats.errors + 1
                /\ update_stats'.updates_performed = update_stats.updates_performed
          /\ failing' = "cauciones" =>
                /\ ret_cycle'
                /\ update_stats'.errors = update_stats.errors
                /\ update_stats'.updates_performed = update_stats.updates_performed + 1
          /\ (op = "update_cycle" /\ failing # "none" /\ failing' = "none") =>
                /\ ret_cycle'
                /\ PendingRows' # {} => Len(quote_writes') = 1 ]_vars

\* A cycle in which only the side-table write failed, after a cycle that
\* failed on the main table.
C19_Witness ==
    /\ op = "update_cycle"
    /\ failing = "cauciones"
    /\ ret_cycle
    /\ update_stats = [errors |-> 1, updates_performed |-> 1]

\* C34: in every state each symbol of the row index has its label in the
\* symbol column of the row it is indexed on, whether the append of new
\* symbols failed or not, so no quote line goes to a row without a symbol.
C34_IndexedRowsCarrySymbol ==
    symbol_row_cache # None =>
        \A sym \in DOMAIN symbol_row_cache[1] :
            RowHolds(sheet, symbol_row_cache[1][sym], sym)

\* C31: an update cycle with an empty batch returns True, issues no sink
\* read and no sink write (no header write, no row deletion, no append, no
\* quote write, no side-table write), and leaves the row index and the two
\* counters as they were.
C31_EmptyBatchNoOp ==
    [][ op' = "update_cycle_empty" =>
          /\ ret_cycle' = TRUE
          /\ read_sink' = FALSE
          /\ deleted' = <<>>
          /\ quote_writes' = <<>>
          /\ failing' = "none"
          /\ sheet' = sheet
          /\ has_headers' = has_headers
          /\ symbol_row_cache' = symbol_row_cache
          /\ update_stats' = update_stats ]_vars

\* An empty batch came with a repo table, after a cycle had built the index
\* and while the side-table write would raise.
C31_Witness ==
    /\ op = "update_cycle_empty"
    /\ df = <<>>
    /\ cauciones_df
    /\ symbol_row_cache # None
    /\ update_stats.updates_performed > 0
    /\ ret_cycle

----------------------------------------------------------------------------
(* Properties of the message normalizer *)

\* The fields of a quote that are counts, the others being prices.
CountFields == {"bid_size", "ask_size", "volume", "operations"}

\* The value of the message a field of the quote is taken from: the first
\* level of BI and OF, the price of LA, and the entries OP, HI, LO, CL, EV, NV
\* and TC (a price entry is a number or {'price': number}).
SourceOf(msg, field) ==
    LET md == IF msg.marketData = None THEN PyDict(<<>>) ELSE msg.marketData[1]
        price_of(value) == IF value.kind = "dict" THEN py_get(value, "price") ELSE value
    IN CASE field = "bid_size" -> level_get(best_level(py_get(md, "BI")), "size")
         [] field = "bid" -> level_get(best_level(py_get(md, "BI")), "price")
         [] field = "ask" -> level_get(best_level(py_get(md, "OF")), "price")
         [] field = "ask_size" -> level_get(best_level(py_get(md, "OF")), "size")
         [] field = "last" -> level_get(py_get(md, "LA"), "price")
         [] field = "open" -> price_of(py_get(md, "OP"))
         [] field = "high" -> price_of(py_get(md, "HI"))
         [] field = "low" -> price_of(py_get(md, "LO"))
         [] field = "previous_close" -> price_of(py_get(md, "CL"))
         [] field = "turnover" -> py_get(md, "EV")
         [] field = "volume" -> py_get(md, "NV")
         [] field = "operations" -> py_get(md, "TC")

SourcedFields == Range(field_order) \ {"change", "datetime"}

\* The numeric fields of a message that are missing or hold no number.
DefectiveFields(msg) ==
    { field \in SourcedFields : SourceOf(msg, field).kind \in {"none", "text"} }
    \cup { field \in DOMAIN msg.top : msg.top[field].kind \in {"none", "text"} }

\* Every numeric value the message has is a finite number.
NoInfiniteValue(msg) ==
    /\ \A field \in SourcedFields : SourceOf(msg, field).kind # "inf"
    /\ \A field \in DOMAIN msg.top : msg.top[field].kind # "inf"

\* The quote of a message: the value of the message for a field that has
\* one (the whole part for a count), 0 for the others; the change from last
\* and previous_close.
ExpectedQuote(msg, t) ==
    LET value(field) ==
            LET src == SourceOf(msg, field)
            IN IF src.kind # "num" THEN PyNum(0)
               ELSE IF field \in CountFields THEN PyNum((src.v \div 100) * 100)
               ELSE src
    IN [field \in Range(field_order) |->
          IF field = "datetime" THEN PyNum(t)
          ELSE IF field = "change"
          THEN (IF value("last").v # 0 /\ value("previous_close").v # 0
                THEN PyNum((value("last").v * 10000) \div value("previous_close").v - 10000)
                ELSE PyNum(0))
          ELSE value(field)]

\* C20: a message for a symbol of the securities table, whose marketData is
\* a dict of finite values and in which a numeric field is missing or holds
\* no number, is processed: the quote built from it has the default for the
\* defective field and the message's value for every other field, and the
\* row of the symbol holds the quote's values in its columns.
C20_DefectiveFieldDefaulted ==
    [][ ( /\ op' = "market_data_handler"
          /\ message'.instrumentId # None
          /\ message'.instrumentId[1] \in DOMAIN everything_df
          /\ message'.marketData # None
          /\ message'.marketData[1].kind = "dict"
          /\ NoInfiniteValue(message')
          /\ DefectiveFields(message') # {} ) =>
        LET symbol == message'.instrumentId[1]
            quote == ExpectedQuote(message', now)
        IN /\ handled' = "processed"
           /\ data_row' = Some(quote)
           /\ everything_df'[symbol] = [col \in securities_columns |-> quote[col]] ]_vars

\* A price of the message that is a number.
PricePresent(msg, field) == SourceOf(msg, field).kind = "num"

\* (last / previous_close) - 1 of the message's prices, in ten-thousandths
RatioMinusOne(msg) ==
    PyNum((SourceOf(msg, "last").v * 10000) \div SourceOf(msg, "previous_close").v - 10000)

\* C21 as stated: the change of a processed message is (last /
\* previous_close) - 1 when the message has a last price and a previous
\* close and the previous close is not 0, and 0 otherwise.
C21_ChangeWhenPresent ==
    [][ (op' = "market_data_handler" /\ handled' = "processed") =>
          data_row'[1].change =
             IF /\ PricePresent(message', "last")
                /\ PricePresent(message', "previous_close")
                /\ SourceOf(message', "previous_close").v # 0
             THEN RatioMinusOne(message')
             ELSE PyNum(0) ]_vars

\* C21 amended: the change of a processed message is (last /
\* previous_close) - 1 when the message has a last price and a previous
\* close and neither is 0, and 0 otherwise.
C21_ChangeWhenNonZero ==
    [][ (op' = "market_data_handler" /\ handled' = "processed") =>
          data_row'[1].change =
             IF /\ PricePresent(message', "last")
                /\ PricePresent(message', "previous_close")
                /\ SourceOf(message', "last").v # 0
                /\ SourceOf(message', "previous_close").v # 0
             THEN RatioMinusOne(message')
             ELSE PyNum(0) ]_vars

\* A processed message with last 100.50 and previous close 100.00: 0.005
C21_Witness ==
    /\ op = "market_data_handler"
    /\ handled = "processed"
    /\ data_row[1].last = PyNum(10050)
    /\ data_row[1].previous_close = PyNum(10000)
    /\ data_row[1].change = PyNum(50)

\* The message has no symbol: no instrumentId, or an absent or empty symbol.
WithoutSymbol(msg) == msg.instrumentId = None \/ msg.instrumentId[1] = ""

PathOf(symbol, classified_option) ==
    IF classified_option THEN "_update_options_data"
    ELSE IF /\ \E i \in DOMAIN symbol_text(symbol) :
                  \E j \in DOMAIN symbol_text(symbol)[i] : symbol_text(symbol)[i][j] = "PESOS"
            /\ LET last_segment == symbol_text(symbol)[Len(symbol_text(symbol))]
               IN last_segment[Len(last_segment)] = "D"
    THEN "_update_cauciones_data"
    ELSE "_update_securities_data"

QuoteField(col) ==
    IF col = "bidsize" THEN "bid_size" ELSE IF col = "asksize" THEN "ask_size" ELSE col

\* After a call of the handler, the rows of table are those before it,
\* except the row of the symbol of a processed message routed to path, whose
\* every column holds the value of the message's quote.
LastMessageWins(table_before, table_after, path) ==
    /\ DOMAIN table_after = DOMAIN table_before
    /\ \A sym \in DOMAIN table_before :
          table_after[sym] =
             IF handled' = "processed" /\ message'.instrumentId = Some(sym) /\ routed' = {path}
             THEN [col \in DOMAIN table_before[sym] |-> data_row'[1][QuoteField(col)]]
             ELSE table_before[sym]

\* C25: updates are applied in arrival order: a processed message for a
\* symbol present in its table sets every quote field of that row to the
\* value the message carries, and no other call changes the row, so the row
\* holds the values of the last processed message for the symbol.
C25_LastMessageWins ==
    [][ op' = "market_data_handler" =>
          /\ LastMessageWins(everything_df, everything_df', "_update_securities_data")
          /\ LastMessageWins(options_df, options_df', "_update_options_data")
          /\ LastMessageWins(handler_cauciones_df, handler_cauciones_df',
                             "_update_cauciones_data") ]_vars

\* Two messages were processed for the share, the last one with last price
\* 100.50; the row holds its last price and its best offer.
C25_Witness ==
    /\ op = "market_data_handler"
    /\ handled = "processed"
    /\ notified = <<"GGAL", "GGAL">>
    /\ message.marketData # None
    /\ message.marketData[1].kind = "dict"
    /\ "LA" \in DOMAIN message.marketData[1].d
    /\ message.marketData[1].d["LA"] = PyDict([price |-> PyNum(10050)])
    /\ everything_df["GGAL"]["last"] = PyNum(10050)
    /\ everything_df["GGAL"]["ask"] = PyNum(10300)

\* C35: with the tables wired as the application wires them (no repo table
\* given to the handler), every processed message for a symbol of the loaded
\* universe is stored in the row of the symbol in the table the update
\* cycle is given, everything_df (main.py lines 270-273).
C35_NoQuoteLostByWiring ==
    [][ ( /\ op' = "market_data_handler"
          /\ handled' = "processed"
          /\ handler_cauciones_df = <<>>
          /\ message'.instrumentId[1] \in DOMAIN everything_df \cup DOMAIN options_df )
        => LET sym == message'.instrumentId[1]
           IN /\ sym \in DOMAIN everything_df'
              /\ everything_df'[sym] =
                    [col \in securities_columns |-> data_row'[1][QuoteField(col)]] ]_vars

----------------------------------------------------------------------------
(* Properties of the repo side table *)

\* The tenors the static table supports
SupportedTenors == 1..60

\* The entries of the table with a symbol 'MERV - XMEV - PESOS - nD' of a
\* supported tenor.
RepoEntries(table) ==
    { i \in DOMAIN table :
        \E n \in SupportedTenors : table[i].symbol = RepoSymbol(n) }

\* The seven values of an entry: maturity = day + n, the last rate, the
\* amount, and the taker's and the placer's amounts and rates.
ExpectedSideValues(entry, day) ==
    << Some(day + entry.symbol.days),
       Some(SideRow(entry.symbol, entry.quoted).last \div 100),
       Some(SideRow(entry.symbol, entry.quoted).volume),
       Some(SideRow(entry.symbol, entry.quoted).bid_size),
       Some(SideRow(entry.symbol, entry.quoted).bid \div 100),
       Some(SideRow(entry.symbol, entry.quoted).ask \div 100),
       Some(SideRow(entry.symbol, entry.quoted).ask_size) >>

\* One range write S{min}:Y{max} carries, for row_of the assignment of rows
\* to tenors, the values of every repo entry of the table that holds its row,
\* spans exactly the rows assigned, and has 7 no-op values on the other rows.
SideTableWritten(table, day, writes, row_of(_), holds_row(_)) ==
    RepoEntries(table) # {} =>
      /\ Len(writes) = 1
      /\ writes[1].first_column = "S" /\ writes[1].last_column = "Y"
      /\ \A i \in RepoEntries(table) :
            /\ writes[1].min_row <= row_of(table[i].symbol.days)
            /\ row_of(table[i].symbol.days) <= writes[1].max_row
            /\ holds_row(i) =>
                 writes[1].value[row_of(table[i].symbol.days)]
                    = ExpectedSideValues(table[i], day)
      /\ \E i \in RepoEntries(table) : writes[1].min_row = row_of(table[i].symbol.days)
      /\ \E i \in RepoEntries(table) : writes[1].max_row = row_of(table[i].symbol.days)
      /\ \A r \in writes[1].min_row..writes[1].max_row :
            (\A i \in RepoEntries(table) : row_of(table[i].symbol.days) # r)
               => writes[1].value[r] = no_update

C39_TenorRowsDistinct ==
    \A i, j \in RepoEntries(side_df) :
        period_to_row(side_df[i].symbol) = period_to_row(side_df[j].symbol)
            => side_df[i].symbol = side_df[j].symbol

----------------------------------------------------------------------------
(* Properties of the application loop *)

\* C26: on shutdown the connection to the provider is closed and one final
\* drain-and-write puts the current quote data into the sink before the
\* application terminates.
C26_FinalWriteOnShutdown ==
    [][ op' = "shutdown" =>
          /\ ~api_initialized'
          /\ quotes_written' = quotes_received' ]_vars

----------------------------------------------------------------------------
(* Properties of the provider callbacks *)

CallbackOps == {"error_callback", "initial_connect_failed", "exception_callback"}

StatusReport == get_connection_status_report(reconnection_attempts, connection_status)

\* C28: the status report is consistent with the state machine: while
\* attempts < max, next_backoff_delay is the delay the next reconnection
\* attempt sleeps; it is 'Max reached' exactly when attempts >= max, and then
\* no attempt is made; consecutive_failures is the number of reconnection
\* attempts since the last successful connection; total_reconnections never
\* decreases.
C28_StatusReportConsistent ==
    [][ /\ (StatusReport.next_backoff_delay = MaxReached)
              <=> (reconnection_attempts >= max_reconnection_attempts)
        /\ (op' \in HandlerOps /\ AttemptMade(events')) =>
              StatusReport.next_backoff_delay = BackoffSeconds(slept')
        /\ (op' \in HandlerOps /\ StatusReport.next_backoff_delay = MaxReached) =>
              ~AttemptMade(events')
        /\ StatusReport'.consecutive_failures = failed_run'
        /\ StatusReport'.total_reconnections >= StatusReport.total_reconnections ]_vars

\* After the tenth failed attempt in a row the report says 'Max reached'
\* and counts ten consecutive failures.
C28_Witness ==
    /\ op = "error_callback"
    /\ StatusReport.next_backoff_delay = MaxReached
    /\ StatusReport.consecutive_failures = 10
    /\ StatusReport.total_reconnections >= 10

\* C38: between calls of the error handler consecutive_failures equals
\* reconnection_attempts, and reconnection_attempts is greater than 0 only
\* while is_connected is False.
C38_BookkeepingConsistent ==
    /\ connection_status.consecutive_failures = reconnection_attempts
    /\ reconnection_attempts > 0 => ~connection_status.is_connected

\* Two reconnections in a row have failed since the session was lost, after
\* an earlier reconnection that had succeeded.
C38_Witness ==
    /\ op = "error_callback"
    /\ ~connection_status.is_connected
    /\ failed_run = 2
    /\ reconnection_attempts = 2
    /\ connection_status.consecutive_failures = 2
    /\ connection_status.total_reconnections = 3

----------------------------------------------------------------------------
(* Properties of the cache file and of the empty registry *)

TiersEmpty == cache.memory_cache = None /\ ~WithinTTL(cache_file, now)

\* The provider gave nothing: it was called and returned nothing or raised.
ProviderGaveNothing == provider_result \in {"empty", "raised"}

\* C30: with every tier empty and the provider returning nothing or
\* failing, the refresh returns the empty set and leaves the cache as it
\* was; validate_symbols then accepts all the given symbols; a later
\* refresh calls the provider again.
C30_EmptyRegistryAcceptsAll ==
    [][ /\ ( /\ op' = "fetch_available_instruments"
             /\ TiersEmpty
             /\ ProviderGaveNothing' )
           => /\ ret_symbols' = {}
              /\ cache_file' = cache_file
              /\ cache'.memory_cache = None
        /\ ( /\ op = "fetch_available_instruments" /\ ProviderGaveNothing /\ ret_symbols = {}
             /\ TiersEmpty
             /\ op' = "validate_symbols"
             /\ provider_result' # "listing" )
           => /\ ret_validation'.valid \in SymbolLists
              /\ ret_validation'.invalid = << >>
        /\ ( /\ op = "fetch_available_instruments" /\ ProviderGaveNothing /\ ret_symbols = {}
             /\ TiersEmpty
             /\ op' = "fetch_available_instruments" )
           => api_called' ]_vars

\* C30 amended: as C30, but validate_symbols accepts all the given symbols
\* only when the client holds no instrument set of an earlier refresh;
\* otherwise it validates against that set.
C30_EmptyRegistryAcceptsAllUnlessKept ==
    [][ /\ ( /\ op' = "fetch_available_instruments"
             /\ TiersEmpty
             /\ ProviderGaveNothing' )
           => /\ ret_symbols' = {}
              /\ cache_file' = cache_file
              /\ cache'.memory_cache = None
        /\ ( /\ op = "fetch_available_instruments" /\ ProviderGaveNothing /\ ret_symbols = {}
             /\ TiersEmpty
             /\ op' = "validate_symbols"
             /\ provider_result' # "listing" )
           => /\ valid_instruments = {} =>
                   /\ ret_validation'.valid \in SymbolLists
                   /\ ret_validation'.invalid = << >>
              /\ valid_instruments # {} =>
                   /\ \A i \in DOMAIN ret_validation'.valid :
                         ret_validation'.valid[i] \in valid_instruments
                   /\ \A i \in DOMAIN ret_validation'.invalid :
                         ret_validation'.invalid[i] \notin valid_instruments
                   /\ Len(ret_validation'.valid) + Len(ret_validation'.invalid) >= 1
        /\ ( /\ op = "fetch_available_instruments" /\ ProviderGaveNothing /\ ret_symbols = {}
             /\ TiersEmpty
             /\ op' = "fetch_available_instruments" )
           => api_called' ]_vars

\* With nothing in memory, no file and a failing provider, validate_symbols
\* let both given symbols through.
C30_Witness ==
    /\ op = "validate_symbols"
    /\ provider_result = "raised"
    /\ cache.memory_cache = None /\ cache_file = None
    /\ valid_instruments = {}
    /\ ret_symbols = {}
    /\ ret_validation = [valid |-> <<"GGAL", "ZZZZ">>, invalid |-> << >>]

----------------------------------------------------------------------------
(* Properties of the symbol display helpers *)

\* What follows the prefix in a symbol that starts with it
AfterPrefix(symbol) == SubSeq(symbol, Len(prefix) + 1, Len(symbol))

\* The three parts of the round trip, rest_allowed(r) saying of which
\* remainders r the first part speaks: restoring the cleaned form of a
\* symbol that starts with the prefix gives the symbol back; cleaning a
\* symbol without the prefix returns it; restoring a restored symbol
\* returns it.
DisplayRoundTrip(rest_allowed(_)) ==
    /\ ( /\ op = "restore_symbol_prefix"
         /\ display_from = "clean_symbol_for_display"
         /\ starts_with_prefix(display_origin)
         /\ rest_allowed(AfterPrefix(display_origin))
         => display_ret = display_origin )
    /\ ( /\ op = "clean_symbol_for_display"
         /\ ~starts_with_prefix(display_arg)
         => display_ret = display_arg )
    /\ ( /\ op = "restore_symbol_prefix"
         /\ display_from = "restore_symbol_prefix"
         => display_ret = display_arg )

\* C32 as claimed: for every symbol s that starts with 'MERV - XMEV - ',
\* restore_symbol_prefix(clean_symbol_for_display(s)) = s; for every symbol
\* without the prefix clean_symbol_for_display(s) = s; restore_symbol_prefix
\* is idempotent.
C32_DisplayRoundTrip ==
    LET any_rest(r) == TRUE
    IN DisplayRoundTrip(any_rest)

\* C32: the same, the round trip being claimed of the symbols whose text
\* after the prefix is not empty and does not start with the prefix again.
C32_DisplayRoundTripOfPlainRest ==
    LET plain_rest(r) == r # <<"">> /\ ~starts_with_prefix(r)
    IN DisplayRoundTrip(plain_rest)

\* "MERV - XMEV - GGAL - 24hs" was cleaned to "GGAL - 24hs" and that was
\* restored to the symbol.
C32_Witness ==
    /\ op = "restore_symbol_prefix"
    /\ display_from = "clean_symbol_for_display"
    /\ display_origin = <<"MERV", "XMEV", "GGAL", "24hs">>
    /\ display_arg = <<"GGAL", "24hs">>
    /\ display_ret = display_origin

\* C40: the key the index build makes of the cell that display cleaning
\* wrote for a symbol of the batch (a symbol with the prefix) is that
\* symbol, so a rebuilt index knows every symbol whose row was added.
C40_KeyInvertsDisplayCleaning ==
    /\ op = "full_symbol"
    /\ display_from = "clean_symbol_for_display"
    /\ starts_with_prefix(display_origin)
    => display_ret = display_origin

----------------------------------------------------------------------------
(* Properties of the two threads *)

\* C33: every quote row written to the sink holds the field values of one
\* single message for the symbol, or those of the initial row.
C33_NoTornRows ==
    sink_row # None =>
        \E m \in 0..MaxArrivals : \A col \in DOMAIN sink_row[1] : sink_row[1][col] = m

----------------------------------------------------------------------------
(* Properties of the tiers of the instrument cache *)

\* The memory snapshot of object c, its lookups and the file f describe one
\* listing: the two snapshots hold the same instruments and the lookups are
\* those _build_lookups derives from them.
SameListing(c, f) ==
    /\ c.memory_cache # None
    /\ f # None
    /\ c.memory_cache[1].instruments = f[1].instruments
    /\ LET lk == build_lookups(f[1])
       IN /\ c.symbol_to_instrument = lk.symbol_to_instrument
          /\ c.options_symbols = lk.options_symbols
          /\ c.all_symbols = lk.all_symbols

\* C36: after any call of save_instruments, successful or failing, the memory
\* snapshot, the lookups and the file all describe the same listing (the
\* new one or the previous one).
C36_SaveAllOrNothing ==
    [][ (op' = "fetch_available_instruments" /\ persisted' # "not_called")
        => SameListing(cache', cache_file') ]_vars

\* The set a lookup holds: None is the empty set.
SetOf(lookup) == IF lookup = None THEN {} ELSE lookup[1]

\* C37: between calls the lookups are derived from the memory snapshot: the
\* symbol set is the key set of the symbol-to-instrument map and is the set
\* of the symbols of the snapshot's instruments, the option set is a subset
\* of it; after clear_cache all are empty, and without a snapshot a lookup
\* reports not found.
C37_LookupsDerivedFromMemory ==
    /\ SetOf(cache.all_symbols) = DOMAIN cache.symbol_to_instrument
    /\ SetOf(cache.all_symbols) = extract_symbols(memory_instruments(cache))
    /\ SetOf(cache.options_symbols) \subseteq SetOf(cache.all_symbols)
    /\ op = "clear_cache" =>
          /\ cache.memory_cache = None
          /\ DOMAIN cache.symbol_to_instrument = {}
          /\ SetOf(cache.all_symbols) = {}
          /\ SetOf(cache.options_symbols) = {}
    /\ (op = "get_instrument_by_symbol" /\ cache.memory_cache = None) => ret_instrument = None
    /\ (op = "is_option_symbol" /\ cache.memory_cache = None) => ~ret_is_option

====
